---- MODULE Spec2Model ----
(***************************************************************************)
(* Model of the anomaly detection and scoring engine of detector-anomalias *)
(* (rule engine, 15-minute detection path, alert writers, z-score          *)
(* features).  Numbers are exact rationals [n, d]; d = 0 stands for a      *)
(* float NaN (a NULL column read back by pandas).                          *)
(***************************************************************************)
EXTENDS Integers, Sequences, FiniteSets, TLC

VARIABLES
    args,              \* arguments of one call of aplicar_reglas_negocio
    ret,               \* its return value (score, razones, reglas_activadas)
    archivo,           \* df_archivo: per terminal, the window's amount
    hora_archivo,      \* hour of the file's window (fecha_hora.hour)
    features_dict,     \* features_ml rows by cod_cajero (absent: no row)
    feature_names,     \* model_data['feature_names']
    modelo,            \* the fitted model: feature vector -> score_samples
    reglas_importadas, \* whether "from reglas_negocio import ..." succeeded
    pos,               \* position of the for loop over cajeros_unicos
    evaluados,         \* per scored terminal: the loop body's local values
    alertas,           \* the list detectar_anomalias returns
    pc15,              \* control point of procesar_archivo_15min.main
    tabla,             \* rows of alertas_dispensacion, in insertion order
    reloj,             \* datetime.now(), as a counter
    llamadas,          \* writer calls so far, oldest first
    zin,               \* inputs of a z-score computation
    zout,              \* the z-scores the three code paths derive from zin
    features_temporales, \* rows of the table, ORDER BY bucket_15min, cod_terminal
    chunk_size,        \* procesar_deteccion's chunk_size
    modelo_if,         \* the fitted IsolationForest of the backfill path
    offset,            \* procesar_deteccion's offset
    pcLote,            \* control point of procesar_deteccion
    X_chunk,           \* the features handed to scaler.transform, last chunk
    puntuadas,         \* per scored window: raw and normalized score
    lineas,            \* the data lines of an input file, split at the commas
    registros,         \* the records parsear_archivo_15min has kept
    i15,               \* lines parsear_archivo_15min has read
    transacciones,     \* the records the upload page's parser has kept
    iCarga,            \* lines the upload page's parser has read
    pcParser,          \* control point of parsear_archivo_15min
    marca,             \* a window timestamp (bucket_15min): dayofweek, day, days_in_month
    temporales,        \* the temporal flags both feature builders give it
    serie,             \* one terminal's monto_total_dispensado, by bucket_15min
    avanzadas          \* the trailing features each feature job has stored

varsReglas == <<args, ret>>
vars15 == <<archivo, hora_archivo, features_dict, feature_names, modelo,
            reglas_importadas, pos, evaluados, alertas, pc15>>
varsTabla == <<tabla, reloj, llamadas>>
varsZ == <<zin, zout>>
varsLote == <<features_temporales, chunk_size, modelo_if, offset, pcLote,
              X_chunk, puntuadas>>
varsParser == <<lineas, registros, i15, transacciones, iCarga, pcParser>>
varsFlags == <<marca, temporales>>
varsTendencia == <<serie, avanzadas>>
vars == <<args, ret, archivo, hora_archivo, features_dict, feature_names,
          modelo, reglas_importadas, pos, evaluados, alertas, pc15, tabla, reloj,
          llamadas, zin, zout, features_temporales, chunk_size, modelo_if,
          offset, pcLote, X_chunk, puntuadas, lineas, registros, i15,
          transacciones, iCarga, pcParser, marca, temporales,
          serie, avanzadas>>

(***************************************************************************)
(* Exact arithmetic standing for Python floats.                            *)
(***************************************************************************)
RECURSIVE GCD(_, _)
GCD(a, b) == IF b = 0 THEN a ELSE GCD(b, a % b)

AbsInt(i) == IF i < 0 THEN -i ELSE i

NaN == [n |-> 0, d |-> 0]

IsNaN(a) == a.d = 0

\* n/d in lowest terms with a positive denominator
Q(n, d) ==
    IF d = 0 THEN NaN
    ELSE LET g == GCD(AbsInt(n), AbsInt(d))
             s == IF d < 0 THEN -1 ELSE 1
         IN [n |-> (s * n) \div g, d |-> (s * d) \div g]

Z(i) == [n |-> i, d |-> 1]

RAdd(a, b) == IF IsNaN(a) \/ IsNaN(b) THEN NaN
              ELSE Q(a.n * b.d + b.n * a.d, a.d * b.d)

RSub(a, b) == IF IsNaN(a) \/ IsNaN(b) THEN NaN
              ELSE Q(a.n * b.d - b.n * a.d, a.d * b.d)

RMul(a, b) == IF IsNaN(a) \/ IsNaN(b) THEN NaN
              ELSE Q(a.n * b.n, a.d * b.d)

\* callers guard the divisor (b > 0)
RDiv(a, b) == IF IsNaN(a) \/ IsNaN(b) THEN NaN
              ELSE Q(a.n * b.d, a.d * b.n)

RAbs(a) == [n |-> AbsInt(a.n), d |-> a.d]

\* float comparisons: every comparison with NaN is false
RLt(a, b) == ~IsNaN(a) /\ ~IsNaN(b) /\ a.n * b.d < b.n * a.d
RGt(a, b) == RLt(b, a)
RLe(a, b) == ~IsNaN(a) /\ ~IsNaN(b) /\ a.n * b.d <= b.n * a.d
RGe(a, b) == RLe(b, a)

\* Python's min(a, b): b when b < a, else a
PyMin(a, b) == IF RLt(b, a) THEN b ELSE a

\* dict.get(k, default)
Get(dict, k, default) == IF k \in DOMAIN dict THEN dict[k] ELSE default

(***************************************************************************)
(* Rule engine: scripts/reglas_negocio.py                                  *)
(***************************************************************************)
NoActivada == [activada |-> FALSE, parcial |-> Z(0), razon |-> ""]

\* an optional argument: None, or a number
None == [some |-> FALSE, v |-> Z(0)]
Some(x) == [some |-> TRUE, v |-> x]

\* Regla1 firing at any distance from the mean (z_score >= 0)
Regla1_desde_cero(dispensacion_actual, promedio, std) ==
    IF RGt(std, Z(0))
    THEN LET z_score == RAbs(RDiv(RSub(dispensacion_actual, promedio), std))
             score_regla1 == PyMin(RDiv(z_score, Z(10)), Z(1))
         IN IF RGe(z_score, Z(0))
            THEN [activada |-> TRUE,
                  parcial |-> RMul(Q(30, 100), score_regla1),
                  razon |-> "Dispensacion extrema"]
            ELSE NoActivada
    ELSE NoActivada

\* REGLA 1: extreme dispensation (weight 0.30)
Regla1(dispensacion_actual, promedio, std) ==
    IF RGt(std, Z(0))
    THEN LET z_score == RAbs(RDiv(RSub(dispensacion_actual, promedio), std))
             score_regla1 == PyMin(RDiv(z_score, Z(10)), Z(1))
         IN IF RGt(z_score, Z(3))
            THEN [activada |-> TRUE,
                  parcial |-> RMul(Q(30, 100), score_regla1),
                  razon |-> "Dispensacion extrema"]
            ELSE NoActivada
    ELSE NoActivada

\* REGLA 2: suspicious hour (weight 0.25)
Regla2(hora_actual, es_madrugada, disp_madrugada_hist, promedio) ==
    IF es_madrugada \/ (0 <= hora_actual /\ hora_actual <= 5)
    THEN LET ratio_madrugada == IF RGt(promedio, Z(0))
                                THEN RDiv(disp_madrugada_hist, promedio)
                                ELSE Z(0)
         IN IF RLt(ratio_madrugada, Q(1, 10))
            THEN [activada |-> TRUE,
                  parcial |-> RMul(Q(25, 100), Z(1)),
                  razon |-> "Dispensacion en madrugada"]
            ELSE NoActivada
    ELSE NoActivada

\* "if x and x > 0": None and 0 are falsy, NaN > 0 is false
Truthy(opt) == opt.some /\ opt.v # Z(0) /\ RGt(opt.v, Z(0))

\* Regla3 with abs() forgotten in the partial score
Regla3_sin_abs(dispensacion_actual, dispensacion_reciente_promedio) ==
    IF Truthy(dispensacion_reciente_promedio)
    THEN LET rec == dispensacion_reciente_promedio.v
             cambio_pct == RMul(RDiv(RSub(dispensacion_actual, rec), rec), Z(100))
             score_regla3 == PyMin(RDiv(cambio_pct, Z(500)), Z(1))
         IN IF RGt(RAbs(cambio_pct), Z(200))
            THEN [activada |-> TRUE,
                  parcial |-> RMul(Q(20, 100), score_regla3),
                  razon |-> IF RGt(cambio_pct, Z(0))
                            THEN "Cambio drastico: aumento"
                            ELSE "Cambio drastico: disminucion"]
            ELSE NoActivada
    ELSE NoActivada

\* Regla3 firing from a change of 50% on
Regla3_umbral_50(dispensacion_actual, dispensacion_reciente_promedio) ==
    IF Truthy(dispensacion_reciente_promedio)
    THEN LET rec == dispensacion_reciente_promedio.v
             cambio_pct == RMul(RDiv(RSub(dispensacion_actual, rec), rec), Z(100))
             score_regla3 == PyMin(RDiv(RAbs(cambio_pct), Z(500)), Z(1))
         IN IF RGt(RAbs(cambio_pct), Z(50))
            THEN [activada |-> TRUE,
                  parcial |-> RMul(Q(20, 100), score_regla3),
                  razon |-> IF RGt(cambio_pct, Z(0))
                            THEN "Cambio drastico: aumento"
                            ELSE "Cambio drastico: disminucion"]
            ELSE NoActivada
    ELSE NoActivada

\* REGLA 3: drastic change (weight 0.20)
Regla3(dispensacion_actual, dispensacion_reciente_promedio) ==
    IF Truthy(dispensacion_reciente_promedio)
    THEN LET rec == dispensacion_reciente_promedio.v
             cambio_pct == RMul(RDiv(RSub(dispensacion_actual, rec), rec), Z(100))
             score_regla3 == PyMin(RDiv(RAbs(cambio_pct), Z(500)), Z(1))
         IN IF RGt(RAbs(cambio_pct), Z(200))
            THEN [activada |-> TRUE,
                  parcial |-> RMul(Q(20, 100), score_regla3),
                  razon |-> IF RGt(cambio_pct, Z(0))
                            THEN "Cambio drastico: aumento"
                            ELSE "Cambio drastico: disminucion"]
            ELSE NoActivada
    ELSE NoActivada

\* Regla4 firing from 5% on (>= for >)
Regla4_desde_5(pct_anomalias_hist) ==
    IF RGe(pct_anomalias_hist, Z(5))
    THEN [activada |-> TRUE,
          parcial |-> RMul(Q(15, 100), PyMin(RDiv(pct_anomalias_hist, Z(20)), Z(1))),
          razon |-> "Historial problematico"]
    ELSE NoActivada

\* REGLA 4: history of anomalies (weight 0.15)
Regla4(pct_anomalias_hist) ==
    IF RGt(pct_anomalias_hist, Z(5))
    THEN [activada |-> TRUE,
          parcial |-> RMul(Q(15, 100), PyMin(RDiv(pct_anomalias_hist, Z(20)), Z(1))),
          razon |-> "Historial problematico"]
    ELSE NoActivada

\* REGLA 5: geographic pattern (weight 0.10)
Regla5(ratio_vs_zona) ==
    IF RGt(ratio_vs_zona, Z(3)) \/ RLt(ratio_vs_zona, Q(3, 10))
    THEN LET score_regla5 == IF RGt(ratio_vs_zona, Z(3)) THEN Z(1) ELSE Q(7, 10)
         IN [activada |-> TRUE,
             parcial |-> RMul(Q(10, 100), score_regla5),
             razon |-> IF RGt(ratio_vs_zona, Z(3))
                       THEN "Dispensacion mucho mayor que cajeros cercanos"
                       ELSE "Dispensacion mucho menor que cajeros cercanos"]
    ELSE NoActivada

NombresReglas == <<"regla_1_dispensacion_extrema", "regla_2_horario_sospechoso",
                   "regla_3_cambio_drastico", "regla_4_historial_anomalias",
                   "regla_5_patron_geografico">>

\* the rules' outcomes, in the order the function evaluates them
EvaluarReglas(dispensacion_actual, features_historicos, hora_actual, es_madrugada, dispensacion_reciente_promedio) ==
    LET promedio == Get(features_historicos, "dispensacion_promedio", Z(0))
        std == Get(features_historicos, "dispensacion_std", Z(1))
        disp_madrugada_hist == Get(features_historicos, "disp_madrugada", Z(0))
        ratio_vs_zona == Get(features_historicos, "ratio_vs_zona", Z(1))
        pct_anomalias_hist == Get(features_historicos, "pct_anomalias_3std", Z(0))
    IN <<Regla1(dispensacion_actual, promedio, std),
         Regla2(hora_actual, es_madrugada, disp_madrugada_hist, promedio),
         Regla3(dispensacion_actual, dispensacion_reciente_promedio),
         Regla4(pct_anomalias_hist),
         Regla5(ratio_vs_zona)>>

\* score += weight * score_regla, rule after rule
RECURSIVE Acumular(_, _)
Acumular(rs, k) ==
    IF k = 0 THEN Z(0)
    ELSE IF rs[k].activada THEN RAdd(Acumular(rs, k - 1), rs[k].parcial)
         ELSE Acumular(rs, k - 1)

\* Razones with each reason put in front of the list (insert(0, ...))
RECURSIVE Razones_al_frente(_, _)
Razones_al_frente(rs, k) ==
    IF k = 0 THEN <<>>
    ELSE IF rs[k].activada THEN <<rs[k].razon>> \o Razones_al_frente(rs, k - 1)
         ELSE Razones_al_frente(rs, k - 1)

\* razones.append(...), rule after rule
RECURSIVE Razones(_, _)
Razones(rs, k) ==
    IF k = 0 THEN <<>>
    ELSE IF rs[k].activada THEN Append(Razones(rs, k - 1), rs[k].razon)
         ELSE Razones(rs, k - 1)

\* the final "score = min(score, 1.0)"
Tope(score) == PyMin(score, Z(1))

aplicar_reglas_negocio(dispensacion_actual, features_historicos, hora_actual, es_madrugada, dispensacion_reciente_promedio) ==
    LET rs == EvaluarReglas(dispensacion_actual, features_historicos, hora_actual,
                            es_madrugada, dispensacion_reciente_promedio)
        activas == {k \in 1..5 : rs[k].activada}
    IN [score |-> Tope(Acumular(rs, 5)),
        razones |-> Razones(rs, 5),
        reglas_activadas |->
            [nombre \in {NombresReglas[k] : k \in activas} |->
                LET k == CHOOSE j \in activas : NombresReglas[j] = nombre
                IN rs[k].parcial]]

(***************************************************************************)
(* 15-minute path: scripts/procesar_archivo_15min.py, detectar_anomalias   *)
(***************************************************************************)
\* for fname in feature_names: valor = features_hist.get(fname, 0), NaN -> 0
PrepararFeatures(features_hist, fnames) ==
    [i \in 1..Len(fnames) |->
        LET valor == Get(features_hist, fnames[i], Z(0))
        IN IF IsNaN(valor) THEN Z(0) ELSE valor]

\* the names of feature_names that features_hist does not have
Faltantes(features_hist, fnames) ==
    {fnames[i] : i \in 1..Len(fnames)} \ DOMAIN features_hist

\* 1000 / (1 + exp(r)) rounded, for r = -1.0, -0.9, ..., 0.0
SigmoideMil == <<731, 711, 690, 668, 646, 622, 599, 574, 550, 525, 500>>

\* score_IF = 1 / (1 + np.exp(score_raw)), score_raw in tenths
ScoreIF(score_raw) == Q(SigmoideMil[score_raw + 11], 1000)

\* the fusion with the weights exchanged
ScoreFinal_pesos_cambiados(score_IF, score_reglas) ==
    RAdd(RMul(Q(4, 10), score_IF), RMul(Q(6, 10), score_reglas))

\* the fusion with the rule score subtracted
ScoreFinal_resta(score_IF, score_reglas) ==
    RSub(RMul(Q(6, 10), score_IF), RMul(Q(4, 10), score_reglas))

\* score_final = 0.6 * score_IF + 0.4 * score_reglas
ScoreFinal(score_IF, score_reglas) ==
    RAdd(RMul(Q(6, 10), score_IF), RMul(Q(4, 10), score_reglas))

Severidad(score_final) ==
    IF RGe(score_final, Q(9, 10)) THEN "Critico"
    ELSE IF RGe(score_final, Q(7, 10)) THEN "Advertencia"
    ELSE IF RGe(score_final, Q(5, 10)) THEN "Sospechoso"
    ELSE "Normal"

\* the guard with a lower threshold than the severity table
EsAnomalo_umbral_bajo(score_final) == RGe(score_final, Q(4, 10))

\* "if score_final >= 0.5": only then is an alert built
EsAnomalo(score_final) == RGe(score_final, Q(5, 10))

\* the alert's desviacion_std
DesviacionStd(dispensacion_actual, features_hist) ==
    IF RGt(Get(features_hist, "dispensacion_std", Z(0)), Z(0))
    THEN RDiv(RSub(dispensacion_actual,
                   Get(features_hist, "dispensacion_promedio", Z(0))),
              Get(features_hist, "dispensacion_std", Z(1)))
    ELSE Z(0)

\* the body of the for loop up to the classification: the local values
EvaluarCajero(cod_cajero, dispensacion_actual, features_hist, hora_actual, score_raw) ==
    LET es_madrugada == 0 <= hora_actual /\ hora_actual <= 5
        reglas == IF reglas_importadas
                  THEN aplicar_reglas_negocio(
                           dispensacion_actual, features_hist, hora_actual,
                           es_madrugada,
                           IF "dispensacion_promedio" \in DOMAIN features_hist
                           THEN Some(features_hist["dispensacion_promedio"])
                           ELSE None)
                  ELSE [score |-> Z(0), razones |-> <<>>, reglas_activadas |-> <<>>]
        score_IF == ScoreIF(score_raw)
        score_final == ScoreFinal(score_IF, reglas.score)
    IN [cod_cajero |-> cod_cajero,
        dispensacion_actual |-> dispensacion_actual,
        X |-> PrepararFeatures(features_hist, feature_names),
        faltantes |-> Faltantes(features_hist, feature_names),
        score_IF |-> score_IF,
        score_reglas |-> reglas.score,
        razones_reglas |-> reglas.razones,
        score_final |-> score_final,
        severidad |-> Severidad(score_final)]

\* the alert dict built for an anomalous terminal
ConstruirAlerta(ev, fecha_hora, features_hist, ahora) ==
    [cod_cajero |-> ev.cod_cajero,
     fecha_hora |-> fecha_hora,
     tipo_anomalia |-> "dispensacion_anomala",
     severidad |-> ev.severidad,
     score_anomalia |-> ev.score_final,
     monto_dispensado |-> ev.dispensacion_actual,
     monto_esperado |-> Get(features_hist, "dispensacion_promedio", Z(0)),
     desviacion_std |-> DesviacionStd(ev.dispensacion_actual, features_hist),
     descripcion |-> ev.razones_reglas,
     razones |-> [score_isolation_forest |-> ev.score_IF,
                  score_reglas |-> ev.score_reglas,
                  score_final |-> ev.score_final],
     modelo_usado |-> "isolation_forest+reglas",
     fecha_deteccion |-> ahora]

(***************************************************************************)
(* The table alertas_dispensacion and the writer of the 15-minute path     *)
(***************************************************************************)
\* the conflict target of the table: (cod_cajero, fecha_hora)
Clave(a) == <<a.cod_cajero, a.fecha_hora>>

Claves(filas) == {Clave(filas[i]) : i \in DOMAIN filas}

FilasDe(t, k) == {i \in DOMAIN t : Clave(t[i]) = k}

\* the table's unique constraint on (cod_cajero, fecha_hora) rejects the rows
ViolaUnique(t, filas) ==
    \/ \E i \in DOMAIN filas : Clave(filas[i]) \in Claves(t)
    \/ \E i, j \in DOMAIN filas : i # j /\ Clave(filas[i]) = Clave(filas[j])

\* to_sql with if_exists='replace': the table is rebuilt from the rows
guardar_alertas_replace(t, filas, rechazadas) ==
    IF Len(filas) = 0 THEN [error |-> FALSE, tabla |-> t]
    ELSE IF rechazadas # {} THEN [error |-> TRUE, tabla |-> t]
    ELSE [error |-> FALSE, tabla |-> filas]

\* df_alertas.to_sql(..., if_exists='append', method='multi'): one INSERT of
\* all the rows; an error leaves the table as it was and is not caught
guardar_alertas(t, filas, rechazadas) ==
    IF Len(filas) = 0 THEN [error |-> FALSE, tabla |-> t]
    ELSE IF rechazadas # {} \/ ViolaUnique(t, filas) THEN [error |-> TRUE, tabla |-> t]
    ELSE [error |-> FALSE, tabla |-> t \o filas]

(***************************************************************************)
(* The writer of the backfill path: src/3_detectar_anomalias.py            *)
(***************************************************************************)
\* neither NaN nor infinite
EsFinito(v) == v.d # 0

\* determinar_severidad with the labels of its last two branches exchanged
determinar_severidad_al_reves(score_anomalia, z_score_vs_cajero) ==
    IF RGe(score_anomalia, Z(80)) /\ RGe(RAbs(z_score_vs_cajero), Z(4))
    THEN "critico"
    ELSE IF RGe(score_anomalia, Z(85)) \/ RGe(RAbs(z_score_vs_cajero), Z(5))
    THEN "critico"
    ELSE IF RGe(score_anomalia, Z(70)) \/ RGe(RAbs(z_score_vs_cajero), Z(3))
    THEN "medio"
    ELSE "alto"

determinar_severidad(score_anomalia, z_score_vs_cajero) ==
    IF RGe(score_anomalia, Z(80)) /\ RGe(RAbs(z_score_vs_cajero), Z(4))
    THEN "critico"
    ELSE IF RGe(score_anomalia, Z(85)) \/ RGe(RAbs(z_score_vs_cajero), Z(5))
    THEN "critico"
    ELSE IF RGe(score_anomalia, Z(70)) \/ RGe(RAbs(z_score_vs_cajero), Z(3))
    THEN "alto"
    ELSE "medio"

\* generar_razones, for the reasons that depend on the modelled columns
generar_razones(row, score_anomalia) ==
    LET razones ==
           (IF RGe(RAbs(row.z_score_vs_cajero), Z(3))
            THEN <<"Z-score vs cajero">> ELSE <<>>)
           \o (IF RGe(score_anomalia, Z(70))
               THEN <<"Isolation Forest">> ELSE <<>>)
    IN [texto |-> IF razones # <<>> THEN razones
                  ELSE <<"Anomalia detectada por modelo">>]

\* the alert dict of detectar_anomalias_chunk for an anomalous row
AlertaDeFila(row, score_anomalia, ahora) ==
    LET z == row.z_score_vs_cajero
        monto_esperado == IF z # Z(0)
                          THEN RDiv(row.monto_total_dispensado, RAdd(Z(1), z))
                          ELSE row.monto_total_dispensado
        severidad == determinar_severidad(score_anomalia, z)
    IN [cod_cajero |-> row.cod_terminal,
        fecha_hora |-> row.bucket_15min,
        tipo_anomalia |-> "isolation_forest",
        severidad |-> severidad,
        score_anomalia |-> score_anomalia,
        monto_dispensado |-> row.monto_total_dispensado,
        monto_esperado |-> monto_esperado,
        desviacion_std |-> RAbs(z),
        descripcion |-> <<"Dispensacion", severidad>>,
        razones |-> generar_razones(row, score_anomalia),
        modelo_usado |-> "isolation_forest_v2",
        fecha_deteccion |-> ahora]

\* the alert of a mild window (v = 1: z 1, score 40) or of an extreme one
\* (v = 2: z 5, score 90)
AlertaLote(cod_terminal, bucket_15min, v, ahora) ==
    AlertaDeFila([cod_terminal |-> cod_terminal,
                  bucket_15min |-> bucket_15min,
                  monto_total_dispensado |-> IF v = 1 THEN Z(8) ELSE Z(30),
                  z_score_vs_cajero |-> IF v = 1 THEN Z(1) ELSE Z(5),
                  volatilidad_reciente |-> Z(0)],
                 IF v = 1 THEN Z(40) ELSE Z(90), ahora)

\* the upsert with descripcion missing from its SET list
UpsertFila_sin_descripcion(t, a) ==
    IF Clave(a) \in Claves(t)
    THEN [i \in DOMAIN t |->
            IF Clave(t[i]) = Clave(a)
            THEN [t[i] EXCEPT !.severidad = a.severidad,
                              !.score_anomalia = a.score_anomalia,
                              !.desviacion_std = a.desviacion_std,
                              !.razones = a.razones,
                              !.fecha_deteccion = a.fecha_deteccion]
            ELSE t[i]]
    ELSE Append(t, a)

\* the upsert without its ON CONFLICT clause taking effect: always a new row
UpsertFila_sin_conflicto(t, a) == Append(t, a)

\* the upsert overwriting the whole stored row on conflict
UpsertFila_reemplaza(t, a) ==
    IF Clave(a) \in Claves(t)
    THEN [i \in DOMAIN t |-> IF Clave(t[i]) = Clave(a) THEN a ELSE t[i]]
    ELSE Append(t, a)

\* INSERT ... ON CONFLICT (cod_cajero, fecha_hora) DO UPDATE SET the six
\* columns; a new key is inserted whole
UpsertFila(t, a) ==
    IF Clave(a) \in Claves(t)
    THEN [i \in DOMAIN t |->
            IF Clave(t[i]) = Clave(a)
            THEN [t[i] EXCEPT !.severidad = a.severidad,
                              !.score_anomalia = a.score_anomalia,
                              !.desviacion_std = a.desviacion_std,
                              !.descripcion = a.descripcion,
                              !.razones = a.razones,
                              !.fecha_deteccion = a.fecha_deteccion]
            ELSE t[i]]
    ELSE Append(t, a)

\* execute_batch: the statement once per alert, in order
RECURSIVE execute_batch(_, _, _)
execute_batch(t, filas, k) ==
    IF k = 0 THEN t ELSE UpsertFila(execute_batch(t, filas, k - 1), filas[k])

\* a writer that deletes the batch's keys in a transaction of its own before
\* the inserts: a failed batch then loses the rows it was to refresh
insertar_alertas_batch_borra(t, filas, rechazadas) ==
    IF Len(filas) = 0 THEN [error |-> FALSE, insertadas |-> 0, tabla |-> t]
    ELSE IF rechazadas # {}
    THEN [error |-> TRUE, insertadas |-> 0,
          tabla |-> SelectSeq(t, LAMBDA r : Clave(r) \notin Claves(filas))]
    ELSE [error |-> FALSE, insertadas |-> Len(filas),
          tabla |-> execute_batch(t, filas, Len(filas))]

\* try: execute_batch, commit, return len(alertas)
\* except: rollback, return 0
insertar_alertas_batch(t, filas, rechazadas) ==
    IF Len(filas) = 0 THEN [error |-> FALSE, insertadas |-> 0, tabla |-> t]
    ELSE IF rechazadas # {} THEN [error |-> TRUE, insertadas |-> 0, tabla |-> t]
    ELSE [error |-> FALSE, insertadas |-> Len(filas),
          tabla |-> execute_batch(t, filas, Len(filas))]

(***************************************************************************)
(* The backfill detection: detectar_anomalias_chunk and procesar_deteccion *)
(***************************************************************************)
\* the model's feature_names among the modelled columns
NombresLote == {"z_score_vs_cajero", "volatilidad_reciente"}

\* ascending order (pandas sorts the finite values to take the median)
RECURSIVE Ordenar(_)
Ordenar(s) ==
    IF Len(s) <= 1 THEN s
    ELSE LET r == Ordenar(Tail(s))
             k == Cardinality({i \in DOMAIN r : RLt(r[i], Head(s))})
         IN SubSeq(r, 1, k) \o <<Head(s)>> \o SubSeq(r, k + 1, Len(r))

\* Series.median(): NaN is skipped; NaN when nothing is left
Mediana(col) ==
    LET o == Ordenar(SelectSeq(col, LAMBDA v : EsFinito(v)))
        n == Len(o)
    IN IF n = 0 THEN NaN
       ELSE IF n % 2 = 1 THEN o[(n + 1) \div 2]
       ELSE RDiv(RAdd(o[n \div 2], o[n \div 2 + 1]), Z(2))

\* replace([inf, -inf], nan), then fillna(median) when the column has a NaN
LimpiarColumna(col) ==
    LET c == [i \in DOMAIN col |-> IF EsFinito(col[i]) THEN col[i] ELSE NaN]
    IN IF \E i \in DOMAIN c : IsNaN(c[i])
       THEN [i \in DOMAIN c |-> IF IsNaN(c[i]) THEN Mediana(c) ELSE c[i]]
       ELSE c

\* X_chunk = df_chunk[feature_names] after the cleanup
LimpiarChunk(df_chunk) ==
    [i \in DOMAIN df_chunk |->
        [f \in NombresLote |->
            LimpiarColumna([j \in DOMAIN df_chunk |-> df_chunk[j][f]])[i]]]

\* the models' decision threshold, in tenths: predict is -1 below it
UmbralesModelo == [por_volatilidad |-> -5, por_z |-> -5]

\* modelo.score_samples of one cleaned row, in tenths
score_samples(m, x) ==
    IF m = "por_volatilidad"
    THEN (IF RGe(RAbs(x.volatilidad_reciente), Z(5)) THEN -8
          ELSE IF RGe(RAbs(x.volatilidad_reciente), Z(1)) THEN -6
          ELSE -4)
         - (IF RGe(RAbs(x.z_score_vs_cajero), Z(4)) THEN 1 ELSE 0)
    ELSE IF RGe(RAbs(x.z_score_vs_cajero), Z(4)) THEN -7 ELSE -6

\* modelo.predict
predict(m, x) == IF score_samples(m, x) < UmbralesModelo[m] THEN -1 ELSE 1

\* (1 - (scores - scores.min()) / (scores.max() - scores.min())) * 100
Normalizar(scores) ==
    LET mn == CHOOSE v \in {scores[i] : i \in DOMAIN scores} :
                 \A j \in DOMAIN scores : v <= scores[j]
        mx == CHOOSE v \in {scores[i] : i \in DOMAIN scores} :
                 \A j \in DOMAIN scores : v >= scores[j]
    IN [i \in DOMAIN scores |->
          RMul(RSub(Z(1), RDiv(Q(scores[i] - mn, 10), Q(mx - mn, 10))), Z(100))]

\* one call on a non-empty chunk: the features handed to the scaler, whether
\* the model rejected them (a NaN is left), the scored windows, the alerts
detectar_anomalias_chunk(df_chunk, m, ahora) ==
    LET X == LimpiarChunk(df_chunk)
        hay_nan == \E i \in DOMAIN X : \E f \in NombresLote : ~EsFinito(X[i][f])
        scores == [i \in DOMAIN X |-> score_samples(m, X[i])]
        scores_normalized == Normalizar(scores)
        filas == [i \in DOMAIN X |->
                    [cod_terminal |-> df_chunk[i].cod_terminal,
                     bucket_15min |-> df_chunk[i].bucket_15min,
                     score_raw |-> scores[i],
                     is_anomaly |-> predict(m, X[i]),
                     score_anomalia |-> scores_normalized[i],
                     z_score_vs_cajero |-> df_chunk[i].z_score_vs_cajero]]
        anomalas == SelectSeq([i \in DOMAIN X |-> i],
                              LAMBDA i : filas[i].is_anomaly = -1)
    IN IF hay_nan
       THEN [X |-> X, error |-> TRUE, puntuadas |-> <<>>, alertas |-> <<>>]
       ELSE [X |-> X, error |-> FALSE, puntuadas |-> filas,
             alertas |-> [k \in DOMAIN anomalas |->
                            AlertaDeFila(df_chunk[anomalas[k]],
                                         scores_normalized[anomalas[k]], ahora)]]

\* LIMIT chunk_size OFFSET offset
LeerChunk(ft, cs, off) ==
    SubSeq(ft, off + 1, IF off + cs > Len(ft) THEN Len(ft) ELSE off + cs)

\* the table after the chunks from offset off on, for a chunk size cs: the
\* while loop of procesar_deteccion (an exception of the model ends the run)
RECURSIVE procesar_deteccion(_, _, _, _, _, _)
procesar_deteccion(ft, m, cs, off, t, ahora) ==
    IF off >= Len(ft) THEN [error |-> FALSE, tabla |-> t]
    ELSE LET r == detectar_anomalias_chunk(LeerChunk(ft, cs, off), m, ahora)
         IN IF r.error THEN [error |-> TRUE, tabla |-> t]
            ELSE procesar_deteccion(ft, m, cs, off + cs,
                    IF r.alertas # <<>>
                    THEN insertar_alertas_batch(t, r.alertas, {}).tabla
                    ELSE t,
                    ahora + 1)

(***************************************************************************)
(* z-scores of the feature builders                                        *)
(***************************************************************************)
\* Series.fillna(0)
FillNa0(v) == IF IsNaN(v) THEN Z(0) ELSE v

\* calcular_features_chunk: (monto - promedio) / std.replace(0, np.nan), fillna(0)
ZScoreChunk(monto, promedio, std) ==
    FillNa0(RDiv(RSub(monto, promedio), IF std = Z(0) THEN NaN ELSE std))

\* calcular_features_ml: (monto - mean) / std.replace(0, 1), fillna(0)
ZScoreML(monto, mean, std) ==
    FillNa0(RDiv(RSub(monto, mean), IF std = Z(0) THEN Z(1) ELSE std))

(***************************************************************************)
(* Values the variables of the other components rest at while one          *)
(* component is exercised.                                                 *)
(***************************************************************************)
RetVacio == [hecho |-> FALSE, score |-> Z(0), razones |-> <<>>,
             reglas_activadas |-> <<>>]

ReposoReglas == args = <<>> /\ ret = RetVacio

Reposo15 ==
    /\ archivo = <<>>
    /\ hora_archivo = 0
    /\ features_dict = <<>>
    /\ feature_names = <<>>
    /\ modelo = <<>>
    /\ reglas_importadas = TRUE
    /\ pos = 0
    /\ evaluados = <<>>
    /\ alertas = <<>>
    /\ pc15 = "reposo"

ReposoTabla == tabla = <<>> /\ reloj = 0 /\ llamadas = <<>>

ReposoZ == zin = <<>> /\ zout = <<>>

ReposoLote ==
    /\ features_temporales = <<>> /\ chunk_size = 1 /\ modelo_if = ""
    /\ offset = 0 /\ pcLote = "reposo" /\ X_chunk = <<>> /\ puntuadas = <<>>

ReposoParser ==
    /\ lineas = <<>> /\ registros = <<>> /\ i15 = 0
    /\ transacciones = <<>> /\ iCarga = 0 /\ pcParser = "reposo"

ReposoFlags == marca = <<>> /\ temporales = <<>>

ReposoTendencia == serie = <<>> /\ avanzadas = <<>>

(***************************************************************************)
(* SpecReglas: one call of aplicar_reglas_negocio on every input of the    *)
(* bounded sets below.                                                     *)
(***************************************************************************)
MaxMonto == 30

MontosReglas == {Z(-8), Z(0), Z(2), Z(5), Z(8), Z(MaxMonto)}
PromediosReglas == {Z(0), Z(2), NaN}
StdsReglas == {Z(0), Z(1), NaN}
MadrugadasReglas == {Z(0), Q(1, 5), Z(1)}
HorasReglas == {0, 5, 6}
RecientesReglas == {None, Some(Z(0)), Some(Z(2)), Some(Z(10))}
PctsReglas == {Z(0), Z(5), Z(10), Z(40)}
RatiosReglas == {Q(2, 10), Q(3, 10), Z(3), Z(4)}

\* a features_ml row as a dict; "vacio" is a dict without the rule engine's keys
FeaturesReglas ==
    {[dispensacion_promedio |-> p, dispensacion_std |-> s, disp_madrugada |-> m,
      ratio_vs_zona |-> z, pct_anomalias_3std |-> a] :
        p \in PromediosReglas, s \in StdsReglas, m \in MadrugadasReglas,
        z \in RatiosReglas, a \in PctsReglas}
    \cup {[cod_cajero |-> Z(1)]}

InitReglas ==
    /\ args \in [dispensacion_actual : MontosReglas,
                 features_historicos : FeaturesReglas,
                 hora_actual : HorasReglas,
                 es_madrugada : BOOLEAN,
                 dispensacion_reciente_promedio : RecientesReglas]
    /\ ret = RetVacio
    /\ Reposo15 /\ ReposoTabla /\ ReposoZ /\ ReposoLote /\ ReposoParser /\ ReposoFlags /\ ReposoTendencia

AplicarReglas ==
    /\ ~ret.hecho
    /\ ret' = [hecho |-> TRUE] @@
              aplicar_reglas_negocio(args.dispensacion_actual,
                                     args.features_historicos, args.hora_actual,
                                     args.es_madrugada,
                                     args.dispensacion_reciente_promedio)
    /\ UNCHANGED <<args, vars15, varsTabla, varsZ, varsLote, varsParser, varsFlags, varsTendencia>>

NextReglas == AplicarReglas

SpecReglas == InitReglas /\ [][NextReglas]_vars

(***************************************************************************)
(* Claims about the rule engine (SpecReglas)                               *)
(***************************************************************************)
\* C1: for every input, whichever subset of the five rules fires, the score
\* returned by aplicar_reglas_negocio lies in [0,1].
C1_ScoreEnRango ==
    ret.hecho => /\ ret.score.d > 0
                 /\ 0 <= ret.score.n
                 /\ ret.score.n <= ret.score.d

\* all five rules fired, each at its full weight: the score is exactly 1
C1_Testigo == ret.hecho /\ Len(ret.razones) = 5 /\ ret.score = Z(1)

\* the claim's reading of the call's inputs
C7_promedio == Get(args.features_historicos, "dispensacion_promedio", Z(0))
C7_std == Get(args.features_historicos, "dispensacion_std", Z(1))
C7_madrugada == Get(args.features_historicos, "disp_madrugada", Z(0))
C7_ratio == Get(args.features_historicos, "ratio_vs_zona", Z(1))
C7_pct == Get(args.features_historicos, "pct_anomalias_3std", Z(0))
C7_z == RAbs(RDiv(RSub(args.dispensacion_actual, C7_promedio), C7_std))
C7_cambio == LET rec == args.dispensacion_reciente_promedio.v
             IN RAbs(RDiv(RMul(RSub(args.dispensacion_actual, rec), Z(100)), rec))
C7_share == IF RGt(C7_promedio, Z(0)) THEN RDiv(C7_madrugada, C7_promedio) ELSE Z(0)
C7_Hasta1(v) == IF RGt(v, Z(1)) THEN Z(1) ELSE v

\* trigger and weighted partial score of rules 1, 3, 4, 5 as the claim gives them
C7_Esperado(nombre) ==
    CASE nombre = "regla_1_dispensacion_extrema" ->
           [activa |-> RGt(C7_std, Z(0)) /\ RGt(C7_z, Z(3)),
            parcial |-> RMul(Q(3, 10), C7_Hasta1(RDiv(C7_z, Z(10))))]
      [] nombre = "regla_3_cambio_drastico" ->
           [activa |-> /\ args.dispensacion_reciente_promedio.some
                       /\ RGt(args.dispensacion_reciente_promedio.v, Z(0))
                       /\ RGt(C7_cambio, Z(200)),
            parcial |-> RMul(Q(2, 10), C7_Hasta1(RDiv(C7_cambio, Z(500))))]
      [] nombre = "regla_4_historial_anomalias" ->
           [activa |-> RGt(C7_pct, Z(5)),
            parcial |-> RMul(Q(15, 100), C7_Hasta1(RDiv(C7_pct, Z(20))))]
      [] nombre = "regla_5_patron_geografico" ->
           [activa |-> RGt(C7_ratio, Z(3)) \/ RLt(C7_ratio, Q(3, 10)),
            parcial |-> IF RGt(C7_ratio, Z(3)) THEN Q(1, 10) ELSE Q(7, 100)]

C7_Reglas1345 == {"regla_1_dispensacion_extrema", "regla_3_cambio_drastico",
                  "regla_4_historial_anomalias", "regla_5_patron_geografico"}

RECURSIVE C7_Suma(_, _)
C7_Suma(f, S) ==
    IF S = {} THEN Z(0)
    ELSE LET k == CHOOSE x \in S : TRUE
         IN RAdd(f[k], C7_Suma(f, S \ {k}))

\* what the claim says of everything but the trigger of rule 2
C7_Resto ==
    /\ \A nombre \in C7_Reglas1345 :
          /\ (nombre \in DOMAIN ret.reglas_activadas) = C7_Esperado(nombre).activa
          /\ nombre \in DOMAIN ret.reglas_activadas =>
                ret.reglas_activadas[nombre] = C7_Esperado(nombre).parcial
    /\ "regla_2_horario_sospechoso" \in DOMAIN ret.reglas_activadas =>
          ret.reglas_activadas["regla_2_horario_sospechoso"] = Q(25, 100)
    /\ ret.score = C7_Suma(ret.reglas_activadas, DOMAIN ret.reglas_activadas)
    /\ RLe(C7_Suma(ret.reglas_activadas, DOMAIN ret.reglas_activadas), Z(1))
    /\ RAdd(Q(30, 100), RAdd(Q(25, 100), RAdd(Q(20, 100),
            RAdd(Q(15, 100), Q(10, 100))))) = Z(1)

C19_Disparada(k) ==
    IF k = 2
    THEN (args.es_madrugada \/ args.hora_actual \in 0..5) /\ RLt(C7_share, Q(1, 10))
    ELSE C7_Esperado(NombresReglas[k]).activa

C19_Disparadas == {k \in 1..5 : C19_Disparada(k)}

\* the reason strings rule k can append
C19_RazonesDe(k) ==
    CASE k = 1 -> {"Dispensacion extrema"}
      [] k = 2 -> {"Dispensacion en madrugada"}
      [] k = 3 -> {"Cambio drastico: aumento", "Cambio drastico: disminucion"}
      [] k = 4 -> {"Historial problematico"}
      [] k = 5 -> {"Dispensacion mucho mayor que cajeros cercanos",
                   "Dispensacion mucho menor que cajeros cercanos"}

\* the rule a reason string belongs to
C19_ReglaDe(razon) == CHOOSE k \in 1..5 : razon \in C19_RazonesDe(k)

\* C19: each firing of a rule appends exactly one reason and one entry of
\* reglas_activadas: the number of reasons equals the number of fired rules
\* (0 to 5), a rule that did not fire leaves no reason, and the reasons appear
\* in rule order 1..5.
C19_UnaRazonPorRegla ==
    ret.hecho =>
        /\ Len(ret.razones) = Cardinality(C19_Disparadas)
        /\ DOMAIN ret.reglas_activadas = {NombresReglas[k] : k \in C19_Disparadas}
        /\ \A i \in DOMAIN ret.razones :
              \E k \in C19_Disparadas : ret.razones[i] \in C19_RazonesDe(k)
        /\ \A k \in C19_Disparadas :
              Cardinality({i \in DOMAIN ret.razones :
                              ret.razones[i] \in C19_RazonesDe(k)}) = 1
        /\ \A i, j \in DOMAIN ret.razones :
              i < j => C19_ReglaDe(ret.razones[i]) < C19_ReglaDe(ret.razones[j])

\* rules 2, 4 and 5 fired and rules 1 and 3 did not: three reasons, in order
C19_Testigo ==
    /\ ret.hecho
    /\ C19_Disparadas = {2, 4, 5}
    /\ Len(ret.razones) = 3
    /\ ret.razones[1] = "Dispensacion en madrugada"
    /\ ret.razones[3] \in C19_RazonesDe(5)

(***************************************************************************)
(* SpecQuince: one run of procesar_archivo_15min on a file of two          *)
(* terminals: detectar_anomalias, then guardar_alertas.                    *)
(***************************************************************************)
cajeros_unicos == <<"100", "115">>

MontosQuince == {Z(2), Z(8), Z(20), Z(MaxMonto)}
HorasQuince == {3, 14}

\* features_ml rows: a quiet terminal, a risky one, one with std = 0, one
\* whose std is NULL
HistNormal == [dispensacion_promedio |-> Z(2), dispensacion_std |-> Z(1),
               disp_madrugada |-> Z(1), ratio_vs_zona |-> Z(1),
               pct_anomalias_3std |-> Z(0)]
HistRiesgo == [dispensacion_promedio |-> Z(2), dispensacion_std |-> Z(1),
               disp_madrugada |-> Z(0), ratio_vs_zona |-> Z(4),
               pct_anomalias_3std |-> Z(40)]
HistStdCero == [dispensacion_promedio |-> Z(2), dispensacion_std |-> Z(0),
                disp_madrugada |-> Z(0), ratio_vs_zona |-> Z(1),
                pct_anomalias_3std |-> Z(10)]
HistStdNula == [dispensacion_promedio |-> Z(8), dispensacion_std |-> NaN,
                disp_madrugada |-> Z(1), ratio_vs_zona |-> Q(2, 10),
                pct_anomalias_3std |-> Z(0)]
\* the baseline of the T1 example in units of 100,000: mean 1,000,000, std
\* 200,000, madrugada share 2% of the mean
HistT1 == [dispensacion_promedio |-> Z(10), dispensacion_std |-> Z(2),
           disp_madrugada |-> Q(2, 10), ratio_vs_zona |-> Z(1),
           pct_anomalias_3std |-> Z(0)]
HistoricosQuince == {HistNormal, HistRiesgo, HistStdCero, HistStdNula, HistT1}

\* features_dict: every subset of the terminals may have a features_ml row
FeaturesDicts ==
    UNION {[S -> HistoricosQuince] : S \in SUBSET {"100", "115"}}

\* the model's feature list: columns of features_ml, or (version skew) a list
\* naming a column that features_ml does not have
NombresModelo == {<<"dispensacion_promedio", "dispensacion_std", "ratio_vs_zona">>,
                  <<"dispensacion_promedio", "dispensacion_std", "cajeros_cercanos_1km">>}

\* score_samples of an Isolation Forest lies in (-1, 0); in tenths
RawsModelo == {-9, -7, -5, -3, -1}

InitQuince ==
    /\ archivo \in [{"100", "115"} -> MontosQuince]
    /\ hora_archivo \in HorasQuince
    /\ features_dict \in FeaturesDicts
    /\ feature_names \in NombresModelo
    /\ modelo = <<>>
    /\ reglas_importadas \in BOOLEAN
    /\ pos = 0
    /\ evaluados = <<>>
    /\ alertas = <<>>
    /\ pc15 = "detectar"
    /\ ReposoReglas /\ ReposoTabla /\ ReposoZ /\ ReposoLote /\ ReposoParser /\ ReposoFlags /\ ReposoTendencia

\* "if not features_hist: ... continue"
OmitirCajero ==
    /\ pc15 = "detectar" /\ pos < Len(cajeros_unicos)
    /\ cajeros_unicos[pos + 1] \notin DOMAIN features_dict
    /\ pos' = pos + 1
    /\ UNCHANGED <<archivo, hora_archivo, features_dict, feature_names, modelo,
                   reglas_importadas, evaluados, alertas, pc15>>
    /\ UNCHANGED <<varsReglas, varsTabla, varsZ, varsLote, varsParser, varsFlags, varsTendencia>>

\* one iteration of the loop for a terminal with a features_ml row
AnalizarCajero ==
    /\ pc15 = "detectar" /\ pos < Len(cajeros_unicos)
    /\ cajeros_unicos[pos + 1] \in DOMAIN features_dict
    /\ LET cod_cajero == cajeros_unicos[pos + 1]
           features_hist == features_dict[cod_cajero]
           X == PrepararFeatures(features_hist, feature_names)
       IN \E score_raw \in (IF X \in DOMAIN modelo THEN {modelo[X]} ELSE RawsModelo) :
            LET ev == EvaluarCajero(cod_cajero, archivo[cod_cajero], features_hist,
                                    hora_archivo, score_raw)
            IN /\ modelo' = IF X \in DOMAIN modelo THEN modelo
                            ELSE modelo @@ (X :> score_raw)
               /\ evaluados' = Append(evaluados, ev)
               /\ alertas' = IF EsAnomalo(ev.score_final)
                             THEN Append(alertas,
                                         ConstruirAlerta(ev, hora_archivo,
                                                         features_hist, reloj))
                             ELSE alertas
    /\ pos' = pos + 1
    /\ UNCHANGED <<archivo, hora_archivo, features_dict, feature_names,
                   reglas_importadas, pc15>>
    /\ UNCHANGED <<varsReglas, varsTabla, varsZ, varsLote, varsParser, varsFlags, varsTendencia>>

\* detectar_anomalias returns; main hands the list to guardar_alertas
GuardarQuince ==
    /\ pc15 = "detectar" /\ pos = Len(cajeros_unicos)
    /\ LET res == guardar_alertas(tabla, alertas, {})
       IN /\ tabla' = res.tabla
          /\ pc15' = IF res.error THEN "error" ELSE "fin"
    /\ UNCHANGED <<archivo, hora_archivo, features_dict, feature_names, modelo,
                   reglas_importadas, pos, evaluados, alertas>>
    /\ UNCHANGED <<varsReglas, reloj, llamadas, varsZ, varsLote, varsParser, varsFlags, varsTendencia>>

NextQuince == OmitirCajero \/ AnalizarCajero \/ GuardarQuince

SpecQuince == InitQuince /\ [][NextQuince]_vars

(***************************************************************************)
(* Claims about the 15-minute detection (SpecQuince)                       *)
(***************************************************************************)
\* a >= p/q, for a fraction a with a positive denominator
C2_AlMenos(a, p, q) == a.n * q >= p * a.d

\* the scores k/Rejilla, which hit every threshold of the severity table
Rejilla == 20

C2_Nivel(f) ==
    CASE C2_AlMenos(f, 9, 10) -> "Critico"
      [] C2_AlMenos(f, 7, 10) /\ ~C2_AlMenos(f, 9, 10) -> "Advertencia"
      [] C2_AlMenos(f, 5, 10) /\ ~C2_AlMenos(f, 7, 10) -> "Sospechoso"
      [] ~C2_AlMenos(f, 5, 10) -> "Normal"

\* C2: the final score is exactly 0.6 x model score (as a fraction) + 0.4 x
\* rule score, and the severity depends on that score only: >= 0.9 Critico,
\* >= 0.7 Advertencia, >= 0.5 Sospechoso, below 0.5 Normal (for the scores of
\* the scored terminals and for every score of the grid).
C2_FusionYSeveridad ==
    \A i \in DOMAIN evaluados :
        LET e == evaluados[i]
            f == e.score_final
        IN /\ RMul(Z(10), f) = RAdd(RMul(Z(6), e.score_IF), RMul(Z(4), e.score_reglas))
           /\ f.d > 0
           /\ e.severidad = C2_Nivel(f)
    /\ \A k \in 0..Rejilla :
          Severidad(Q(k, Rejilla)) = C2_Nivel(Q(k, Rejilla))

\* a run that classified one terminal Advertencia and the other Sospechoso
C2_Testigo ==
    /\ pos = Len(cajeros_unicos)
    /\ \E i, j \in DOMAIN evaluados :
          /\ evaluados[i].severidad = "Advertencia"
          /\ evaluados[j].severidad = "Sospechoso"
          /\ evaluados[i].score_reglas # Z(0)

C3_Rango(sev) ==
    CASE sev = "Normal" -> 0
      [] sev = "Sospechoso" -> 1
      [] sev = "Advertencia" -> 2
      [] sev = "Critico" -> 3

\* C3: the fused score is always in [0,1], and between any two scored
\* terminals it does not decrease when the model score rises with the rule
\* score equal, nor when the rule score rises with the model score equal;
\* the severity tier follows.
C3_RangoYMonotonia ==
    /\ \A i \in DOMAIN evaluados :
          LET f == evaluados[i].score_final
          IN f.d > 0 /\ 0 <= f.n /\ f.n <= f.d
    /\ \A i, j \in DOMAIN evaluados :
          LET a == evaluados[i]
              b == evaluados[j]
          IN (\/ (RLe(a.score_IF, b.score_IF) /\ a.score_reglas = b.score_reglas)
              \/ (RLe(a.score_reglas, b.score_reglas) /\ a.score_IF = b.score_IF))
             => /\ RLe(a.score_final, b.score_final)
                /\ C3_Rango(a.severidad) <= C3_Rango(b.severidad)

\* two scored terminals with the same rule score, the higher model score
\* giving the higher final score
C3_SubeModelo ==
    \E i, j \in DOMAIN evaluados :
       LET a == evaluados[i]
           b == evaluados[j]
       IN /\ RLt(a.score_IF, b.score_IF) /\ a.score_reglas = b.score_reglas
          /\ RLt(a.score_final, b.score_final)

\* two scored terminals with the same model score, the higher rule score
\* giving the higher severity tier
C3_SubeReglas ==
    \E i, j \in DOMAIN evaluados :
       LET a == evaluados[i]
           b == evaluados[j]
       IN /\ RLt(a.score_reglas, b.score_reglas) /\ a.score_IF = b.score_IF
          /\ a.score_reglas # Z(0)
          /\ C3_Rango(a.severidad) < C3_Rango(b.severidad)

C3_Testigo == C3_SubeReglas

C8_Alertados == {alertas[i].cod_cajero : i \in DOMAIN alertas}

\* C8: an alert is appended for a scored terminal iff its final score is
\* >= 0.5; a terminal that was not scored gets none; no alert of severity
\* Normal is in the list, nor in what the writer stores.
C8_SoloAnomalos ==
    /\ \A i \in DOMAIN evaluados :
          LET e == evaluados[i]
          IN (e.cod_cajero \in C8_Alertados) = (2 * e.score_final.n >= e.score_final.d)
    /\ C8_Alertados \subseteq {evaluados[i].cod_cajero : i \in DOMAIN evaluados}
    /\ Len(alertas) = Cardinality(C8_Alertados)
    /\ \A i \in DOMAIN alertas : alertas[i].severidad # "Normal"
    /\ \A i \in DOMAIN tabla : tabla[i].severidad # "Normal"

\* a finished run: one terminal alerted and stored, the other scored Normal
C8_Testigo ==
    /\ pc15 = "fin" /\ Len(tabla) = 1 /\ Len(evaluados) = 2
    /\ \E i \in DOMAIN evaluados : evaluados[i].severidad = "Normal"

\* C10: a terminal is scored only when every name of the model's
\* feature_names is a feature of the terminal; no feature vector completed
\* with default values is scored.
C10_SinRelleno ==
    \A i \in DOMAIN evaluados : evaluados[i].faltantes = {}

\* C18: a terminal of the file that has no row in features_ml is still
\* scored (from the statistics of its own windows); it is not dropped from
\* the analysis: once the loop of detectar_anomalias has passed a terminal,
\* the terminal has an evaluation.
C18_SinHistorialPuntuado ==
    \A k \in 1..pos :
        \E i \in DOMAIN evaluados : evaluados[i].cod_cajero = cajeros_unicos[k]

\* the evaluations of the T1 example: window amount 2,000,000 at hour 3 on
\* the T1 baseline, rule engine loaded
C23_T1 ==
    {i \in DOMAIN evaluados :
        /\ reglas_importadas /\ hora_archivo = 3
        /\ archivo[evaluados[i].cod_cajero] = Z(20)
        /\ features_dict[evaluados[i].cod_cajero] = HistT1}

\* C23: for the T1 example the rule score is >= 0.40 (0.15 from rule 1 plus
\* 0.25 from rule 2) and the severity detectar_anomalias assigns is at least
\* 'Advertencia', whatever the model score.
C23_AlMenosAdvertencia ==
    \A i \in C23_T1 :
        /\ RGe(evaluados[i].score_reglas, Q(40, 100))
        /\ evaluados[i].severidad \in {"Advertencia", "Critico"}

\* the evaluations of a quiet window: the amount equals the terminal's
\* historical mean, at hour 14 (the historical mean is also what the loop
\* passes as the recent average, so there is no drastic change), ratio_vs_zona
\* within [0.3, 3]
C24_Tranquilas ==
    {i \in DOMAIN evaluados :
        LET h == features_dict[evaluados[i].cod_cajero]
        IN /\ reglas_importadas /\ hora_archivo = 14
           /\ archivo[evaluados[i].cod_cajero] = h.dispensacion_promedio
           /\ RGe(h.ratio_vs_zona, Q(3, 10)) /\ RLe(h.ratio_vs_zona, Z(3))}

\* no rule fired, and no alert when the fused score is below 0.5
C24_SinReglasNiAlerta(i) ==
    /\ evaluados[i].score_reglas = Z(0)
    /\ evaluados[i].razones_reglas = <<>>
    /\ RLt(evaluados[i].score_final, Q(5, 10)) =>
          \A k \in DOMAIN alertas :
              alertas[k].cod_cajero # evaluados[i].cod_cajero

\* C24 as stated: for a quiet window aplicar_reglas_negocio returns score 0
\* and no reason, and with a fused score below 0.5 detectar_anomalias
\* produces no alert for the terminal.
C24_Original ==
    \A i \in C24_Tranquilas : C24_SinReglasNiAlerta(i)

\* C24 as amended: the same for a quiet window of a terminal whose
\* historical share of anomalous windows (pct_anomalias_3std) is at most 5.
C24_SinAlerta ==
    \A i \in C24_Tranquilas :
        RLe(features_dict[evaluados[i].cod_cajero].pct_anomalias_3std, Z(5))
            => C24_SinReglasNiAlerta(i)

\* both terminals of the file had a quiet window and a clean history, the
\* loop is over and there is no alert
C24_Testigo ==
    /\ pos = Len(cajeros_unicos) /\ alertas = <<>>
    /\ C24_Tranquilas = {1, 2}
    /\ \A i \in C24_Tranquilas :
          /\ features_dict[evaluados[i].cod_cajero].pct_anomalias_3std = Z(0)
          /\ RLt(evaluados[i].score_final, Q(5, 10))

\* whether the reason r is among the rule reasons of the i-th evaluation
C30_Razon(i, r) ==
    \E k \in DOMAIN evaluados[i].razones_reglas :
        evaluados[i].razones_reglas[k] = r

\* C30: detectar_anomalias evaluates the drastic-change rule against the
\* terminal's historical mean, so for a non-negative amount rule 3 fires only
\* for an increase (amount > 3 x mean, mean > 0): 'disminucion' is never
\* reported and a collapse of dispensation never triggers the rule.
C30_SoloAumentos ==
    \A i \in DOMAIN evaluados :
        LET h == features_dict[evaluados[i].cod_cajero]
            monto == evaluados[i].dispensacion_actual
        IN RGe(monto, Z(0)) =>
              /\ ~C30_Razon(i, "Cambio drastico: disminucion")
              /\ C30_Razon(i, "Cambio drastico: aumento") =>
                    /\ RGt(h.dispensacion_promedio, Z(0))
                    /\ RGt(monto, RMul(Z(3), h.dispensacion_promedio))
              /\ RLt(monto, h.dispensacion_promedio) =>
                    ~C30_Razon(i, "Cambio drastico: aumento")

\* one terminal more than tripled its mean and rule 3 fired; the other
\* collapsed to a fifth of its mean and rule 3 did not fire
C30_Testigo ==
    /\ reglas_importadas /\ Len(evaluados) = 2
    /\ C30_Razon(1, "Cambio drastico: aumento")
    /\ evaluados[2].dispensacion_actual = Z(2)
    /\ features_dict[evaluados[2].cod_cajero].dispensacion_promedio = Z(10)
    /\ ~C30_Razon(2, "Cambio drastico: aumento")

(***************************************************************************)
(* SpecAlertas: writer calls of both detection paths, in any order, on the *)
(* shared table; the database may reject rows of a batch.                  *)
(***************************************************************************)
MaxLlamadas == 3

VentanasAlertas == {3}

\* the alert of the 15-minute path for a mild window (1) or an extreme one (2)
AlertaQuince(cod_cajero, fecha_hora, v, ahora) ==
    LET hist == IF v = 1 THEN HistNormal ELSE HistRiesgo
        ev == EvaluarCajero(cod_cajero, IF v = 1 THEN Z(8) ELSE Z(MaxMonto),
                            hist, fecha_hora, -9)
    IN ConstruirAlerta(ev, fecha_hora, hist, ahora)

\* the (terminal, kind of window) lists of a run: no alert, or one alert per
\* terminal, terminal 100 with a mild or an extreme window
CajerosDeLote ==
    {<<>>, <<<<"100", 1>>>>, <<<<"100", 2>>>>, <<<<"115", 1>>>>,
     <<<<"100", 1>>, <<"115", 1>>>>, <<<<"100", 2>>, <<"115", 1>>>>}

\* the alert lists a run can hand over to its writer
LotesDe(escritor, ahora) ==
    {[i \in DOMAIN cs |->
        IF escritor = "insertar_alertas_batch"
        THEN AlertaLote(cs[i][1], w, cs[i][2], ahora)
        ELSE AlertaQuince(cs[i][1], w, cs[i][2], ahora)] :
     cs \in CajerosDeLote, w \in VentanasAlertas}

\* the rows of a batch the database rejects: none, or one of them
Rechazos(filas) == {{}} \cup {{i} : i \in DOMAIN filas}

InitAlertas ==
    /\ tabla = <<>>
    /\ reloj = 0
    /\ llamadas = <<>>
    /\ ReposoReglas /\ Reposo15 /\ ReposoZ /\ ReposoLote /\ ReposoParser /\ ReposoFlags /\ ReposoTendencia

Registrar(escritor, filas, rechazadas, res) ==
    Append(llamadas, [escritor |-> escritor, alertas |-> filas,
                      rechazadas |-> rechazadas, error |-> res.error,
                      antes |-> tabla])

\* a chunk's alerts written by insertar_alertas_batch
InsertarAlertasBatch ==
    /\ Len(llamadas) < MaxLlamadas
    /\ \E filas \in LotesDe("insertar_alertas_batch", reloj) :
       \E rechazadas \in Rechazos(filas) :
          LET res == insertar_alertas_batch(tabla, filas, rechazadas)
          IN /\ tabla' = res.tabla
             /\ llamadas' = Registrar("insertar_alertas_batch", filas, rechazadas, res)
    /\ reloj' = reloj + 1
    /\ UNCHANGED <<varsReglas, vars15, varsZ, varsLote, varsParser, varsFlags, varsTendencia>>

\* a file's alerts written by guardar_alertas
GuardarAlertas ==
    /\ Len(llamadas) < MaxLlamadas
    /\ \E filas \in LotesDe("guardar_alertas", reloj) :
       \E rechazadas \in Rechazos(filas) :
          LET res == guardar_alertas(tabla, filas, rechazadas)
          IN /\ tabla' = res.tabla
             /\ llamadas' = Registrar("guardar_alertas", filas, rechazadas, res)
    /\ reloj' = reloj + 1
    /\ UNCHANGED <<varsReglas, vars15, varsZ, varsLote, varsParser, varsFlags, varsTendencia>>

NextAlertas == InsertarAlertasBatch \/ GuardarAlertas

SpecAlertas == InitAlertas /\ [][NextAlertas]_vars

(***************************************************************************)
(* Claims about the alert writers (SpecAlertas)                            *)
(***************************************************************************)
\* an alert without its detection timestamp
C4_SinFecha(a) == [a EXCEPT !.fecha_deteccion = 0]

C4_MismasAlertas(c1, c2) ==
    /\ c1.escritor = c2.escritor
    /\ Len(c1.alertas) = Len(c2.alertas)
    /\ \A i \in DOMAIN c1.alertas :
          C4_SinFecha(c1.alertas[i]) = C4_SinFecha(c2.alertas[i])

\* the two last calls are one writer run twice on the identical set of
\* alerts: the keys were new to the table, the first run stored them and the
\* database rejects no row of the second for a reason of its own
C4_DosVeces(c1, c2) ==
    /\ C4_MismasAlertas(c1, c2)
    /\ Claves(c1.alertas) \cap Claves(c1.antes) = {}
    /\ ~c1.error
    /\ c2.rechazadas = {}

\* C4: when a writer has just run twice in a row on the identical set of
\* alerts, the second run does not fail and the table holds exactly one row
\* per key of the set, equal to the second run's alert.
C4_Idempotente ==
    Len(llamadas) >= 2 =>
        LET c1 == llamadas[Len(llamadas) - 1]
            c2 == llamadas[Len(llamadas)]
        IN C4_DosVeces(c1, c2)
           => /\ ~c2.error
              /\ \A i \in DOMAIN c2.alertas :
                    /\ Cardinality(FilasDe(tabla, Clave(c2.alertas[i]))) = 1
                    /\ \A j \in FilasDe(tabla, Clave(c2.alertas[i])) :
                          tabla[j] = c2.alertas[i]

C9_FilaPorFila ==
    Len(llamadas) >= 1 =>
        LET c == llamadas[Len(llamadas)]
        IN c.rechazadas # {} =>
              \A i \in DOMAIN c.alertas \ c.rechazadas :
                 \E j \in DOMAIN tabla :
                    /\ Clave(tabla[j]) = Clave(c.alertas[i])
                    /\ tabla[j].fecha_deteccion = c.alertas[i].fecha_deteccion

\* the last writer call
C11_Ultima == llamadas[Len(llamadas)]

\* C11: a successful insertar_alertas_batch leaves, for every alert of the
\* batch whose key was stored, that row with severidad, score_anomalia,
\* desviacion_std, descripcion, razones and fecha_deteccion of the new alert
\* and tipo_anomalia, monto_dispensado, monto_esperado and modelo_usado as
\* they were; for a key that was absent it stores the complete new alert.
C11_Upsert ==
    (/\ Len(llamadas) >= 1
     /\ C11_Ultima.escritor = "insertar_alertas_batch"
     /\ ~C11_Ultima.error)
    => \A i \in DOMAIN C11_Ultima.alertas :
          LET a == C11_Ultima.alertas[i]
              antes == C11_Ultima.antes
          IN /\ FilasDe(tabla, Clave(a)) # {}
             /\ \A j \in FilasDe(tabla, Clave(a)) :
                   IF Clave(a) \in Claves(antes)
                   THEN \E h \in FilasDe(antes, Clave(a)) :
                           /\ tabla[j].severidad = a.severidad
                           /\ tabla[j].score_anomalia = a.score_anomalia
                           /\ tabla[j].desviacion_std = a.desviacion_std
                           /\ tabla[j].descripcion = a.descripcion
                           /\ tabla[j].razones = a.razones
                           /\ tabla[j].fecha_deteccion = a.fecha_deteccion
                           /\ tabla[j].tipo_anomalia = antes[h].tipo_anomalia
                           /\ tabla[j].monto_dispensado = antes[h].monto_dispensado
                           /\ tabla[j].monto_esperado = antes[h].monto_esperado
                           /\ tabla[j].modelo_usado = antes[h].modelo_usado
                   ELSE tabla[j] = a

\* a successful batch of two alerts: one updates a row that the 15-minute
\* path stored with another amount, the other has a new key
C11_Testigo ==
    /\ Len(llamadas) >= 2
    /\ C11_Ultima.escritor = "insertar_alertas_batch"
    /\ ~C11_Ultima.error
    /\ Len(C11_Ultima.alertas) = 2
    /\ \E i \in DOMAIN C11_Ultima.alertas : \E h \in DOMAIN C11_Ultima.antes :
          /\ Clave(C11_Ultima.antes[h]) = Clave(C11_Ultima.alertas[i])
          /\ C11_Ultima.antes[h].tipo_anomalia = "dispensacion_anomala"
          /\ C11_Ultima.antes[h].monto_dispensado
                # C11_Ultima.alertas[i].monto_dispensado
    /\ \E i \in DOMAIN C11_Ultima.alertas :
          Clave(C11_Ultima.alertas[i]) \notin Claves(C11_Ultima.antes)

\* C12: after a writer call for the keys K, successful or failed, every alert
\* that was stored under a key outside K is still stored, equal in all its
\* fields.
C12_AjenasIntactas ==
    Len(llamadas) >= 1 =>
        \A h \in DOMAIN C11_Ultima.antes :
           LET vieja == C11_Ultima.antes[h]
           IN Clave(vieja) \notin Claves(C11_Ultima.alertas)
              => /\ FilasDe(tabla, Clave(vieja)) # {}
                 /\ \A j \in FilasDe(tabla, Clave(vieja)) : tabla[j] = vieja

\* calls of both writers, one failed, and a last call that changed the table
\* while an alert of another key was stored
C12_Testigo ==
    /\ Len(llamadas) = 3
    /\ llamadas[2].error
    /\ llamadas[2].escritor # C11_Ultima.escritor
    /\ ~C11_Ultima.error
    /\ tabla # C11_Ultima.antes
    /\ Claves(C11_Ultima.antes) \ Claves(C11_Ultima.alertas) # {}
    /\ Claves(llamadas[2].antes) \ Claves(llamadas[2].alertas) # {}

\* C13: no writer call of either path removes a key from the table: the
\* keys stored before a step are stored after it.
C13_NuncaEncoge == [][Claves(tabla) \subseteq Claves(tabla')]_vars

\* an alert was stored, then a run found nothing to alert (empty list), then
\* a run for the same key failed: the alert is still stored
C13_Testigo ==
    /\ Len(llamadas) = 3
    /\ Len(llamadas[1].alertas) = 1 /\ ~llamadas[1].error
    /\ Len(llamadas[2].alertas) = 0
    /\ llamadas[3].error
    /\ Claves(llamadas[3].alertas) = Claves(llamadas[1].alertas)
    /\ llamadas[3].escritor # llamadas[1].escritor
    /\ Claves(llamadas[1].alertas) \subseteq Claves(tabla)

\* the row is one that was stored before the last call
C14_Anterior(fila) ==
    \E h \in DOMAIN C11_Ultima.antes : fila = C11_Ultima.antes[h]

\* the row is a complete alert of the last call
C14_Completa(fila) ==
    \E i \in DOMAIN C11_Ultima.alertas : fila = C11_Ultima.alertas[i]

\* the row is a stored row with the six upsert columns, all of them, taken
\* from an alert of the last call
C14_Refrescada(fila) ==
    /\ C11_Ultima.escritor = "insertar_alertas_batch"
    /\ \E i \in DOMAIN C11_Ultima.alertas : \E h \in DOMAIN C11_Ultima.antes :
          LET a == C11_Ultima.alertas[i]
              vieja == C11_Ultima.antes[h]
          IN /\ Clave(a) = Clave(vieja)
             /\ fila = [cod_cajero |-> vieja.cod_cajero,
                        fecha_hora |-> vieja.fecha_hora,
                        tipo_anomalia |-> vieja.tipo_anomalia,
                        monto_dispensado |-> vieja.monto_dispensado,
                        monto_esperado |-> vieja.monto_esperado,
                        modelo_usado |-> vieja.modelo_usado,
                        severidad |-> a.severidad,
                        score_anomalia |-> a.score_anomalia,
                        desviacion_std |-> a.desviacion_std,
                        descripcion |-> a.descripcion,
                        razones |-> a.razones,
                        fecha_deteccion |-> a.fecha_deteccion]

\* C14 as stated: after any writer call every stored alert is either the
\* complete alert computed by the run or exactly what was stored before.
C14_Original ==
    Len(llamadas) >= 1 =>
        \A j \in DOMAIN tabla : C14_Anterior(tabla[j]) \/ C14_Completa(tabla[j])

\* C14 amended: after any writer call every stored alert is what was stored
\* before, or the complete alert of the run (its key was absent), or, for
\* insertar_alertas_batch on a stored key, the stored alert with all six
\* upsert columns from the run's alert; a failed call leaves the table as it
\* was.
C14_TodoONada ==
    Len(llamadas) >= 1 =>
        /\ \A j \in DOMAIN tabla :
              \/ C14_Anterior(tabla[j])
              \/ (C14_Completa(tabla[j])
                    /\ Clave(tabla[j]) \notin Claves(C11_Ultima.antes))
              \/ C14_Refrescada(tabla[j])
        /\ C11_Ultima.error => tabla = C11_Ultima.antes

\* a failed batch of two alerts left the table alone, and the next batch
\* refreshed a row of the 15-minute path that differs in its other columns
C14_Testigo ==
    /\ Len(llamadas) = 3
    /\ llamadas[2].error /\ Len(llamadas[2].alertas) = 2
    /\ llamadas[3].antes = llamadas[2].antes
    /\ ~C11_Ultima.error
    /\ \E j \in DOMAIN tabla :
          /\ C14_Refrescada(tabla[j])
          /\ ~C14_Anterior(tabla[j]) /\ ~C14_Completa(tabla[j])

\* dashboard/utils/queries.py, QUERY_KPIS_GENERALES: the alerts counted by
\* severity, and the total
QUERY_KPIS_GENERALES(t) ==
    [alertas_criticas |-> Cardinality({i \in DOMAIN t : t[i].severidad = "critico"}),
     alertas_altas |-> Cardinality({i \in DOMAIN t : t[i].severidad = "alto"}),
     alertas_medias |-> Cardinality({i \in DOMAIN t : t[i].severidad = "medio"}),
     total_alertas |-> Len(t)]

\* C27: every alert stored in alertas_dispensacion, by either detection
\* path, carries a severity of the set {'critico', 'alto', 'medio'} that the
\* dashboard's KPI queries count, so the counts by severity add up to the
\* total and no stored alert is invisible to them.
C27_SeveridadesContadas ==
    /\ \A i \in DOMAIN tabla : tabla[i].severidad \in {"critico", "alto", "medio"}
    /\ LET kpis == QUERY_KPIS_GENERALES(tabla)
       IN kpis.alertas_criticas + kpis.alertas_altas + kpis.alertas_medias
             = kpis.total_alertas

(***************************************************************************)
(* SpecLote: one run of procesar_deteccion over features_temporales, chunk *)
(* by chunk.                                                               *)
(***************************************************************************)
MaxFilas == 4

MaxChunk == 3

\* (bucket_15min, cod_terminal) of the i-th row in the table's order
ClaveDeFila(i) ==
    [bucket_15min |-> (i + 1) \div 2,
     cod_terminal |-> IF i % 2 = 1 THEN "100" ELSE "115"]

ZScoresLote == {Z(0), Z(4)}

\* STDDEV over the preceding windows: NULL for a terminal's first windows
VolatilidadesLote == {Z(0), Z(8), NaN}

ModelosLote == {"por_volatilidad", "por_z"}

\* the (z_score_vs_cajero, volatilidad_24h) pairs a row of the table carries
FilasLote == {<<Z(0), NaN>>, <<Z(0), Z(0)>>, <<Z(0), Z(8)>>, <<Z(4), Z(8)>>}

TablasDeFeatures == UNION {[1..n -> FilasLote] : n \in 1..MaxFilas}

FilaDeFeatures(i, zc) ==
    [cod_terminal |-> ClaveDeFila(i).cod_terminal,
     bucket_15min |-> ClaveDeFila(i).bucket_15min,
     monto_total_dispensado |-> Z(8),
     z_score_vs_cajero |-> zc[1],
     volatilidad_reciente |-> zc[2]]

InitLote ==
    /\ \E t \in TablasDeFeatures :
          features_temporales = [i \in DOMAIN t |-> FilaDeFeatures(i, t[i])]
    /\ chunk_size \in 1..MaxChunk
    /\ modelo_if \in ModelosLote
    /\ offset = 0
    /\ pcLote = "leer"
    /\ X_chunk = <<>>
    /\ puntuadas = <<>>
    /\ tabla = <<>> /\ reloj = 0 /\ llamadas = <<>>
    /\ ReposoReglas /\ Reposo15 /\ ReposoZ /\ ReposoParser /\ ReposoFlags /\ ReposoTendencia

\* one iteration of the while loop: read a chunk, detect, insert the alerts
ProcesarChunk ==
    /\ pcLote = "leer"
    /\ offset < Len(features_temporales)
    /\ LET df_chunk == LeerChunk(features_temporales, chunk_size, offset)
           r == detectar_anomalias_chunk(df_chunk, modelo_if, reloj)
       IN /\ X_chunk' = r.X
          /\ IF r.error
             THEN /\ pcLote' = "error"
                  /\ UNCHANGED <<offset, puntuadas, tabla>>
             ELSE /\ pcLote' = "leer"
                  /\ offset' = offset + chunk_size
                  /\ puntuadas' = puntuadas \o
                        [i \in DOMAIN r.puntuadas |->
                            [chunk |-> offset, fila |-> r.puntuadas[i]]]
                  /\ tabla' = IF r.alertas # <<>>
                              THEN insertar_alertas_batch(tabla, r.alertas, {}).tabla
                              ELSE tabla
    /\ reloj' = reloj + 1
    /\ UNCHANGED <<features_temporales, chunk_size, modelo_if, llamadas>>
    /\ UNCHANGED <<varsReglas, vars15, varsZ, varsParser, varsFlags, varsTendencia>>

\* while offset < total_registros ends
TerminarLote ==
    /\ pcLote = "leer"
    /\ offset >= Len(features_temporales)
    /\ pcLote' = "fin"
    /\ UNCHANGED <<features_temporales, chunk_size, modelo_if, offset, X_chunk,
                   puntuadas>>
    /\ UNCHANGED <<varsReglas, vars15, varsTabla, varsZ, varsParser, varsFlags, varsTendencia>>

NextLote == ProcesarChunk \/ TerminarLote

SpecLote == InitLote /\ [][NextLote]_vars

\* C15: every feature value handed to scaler.transform is finite (neither
\* NaN nor infinite), for every chunk of every run.
C15_Finitos ==
    \A i \in DOMAIN X_chunk : \A f \in NombresLote : EsFinito(X_chunk[i][f])

\* the scored windows of the chunk read at offset c
C16_DelChunk(c) == {i \in DOMAIN puntuadas : puntuadas[i].chunk = c}

\* C16: every scored window's normalized score is a number in [0,100]; in
\* its chunk the lowest raw score gets 100 and the highest gets 0, and a
\* lower raw score never gets a lower normalized score.
C16_MinMax ==
    \A i \in DOMAIN puntuadas :
       LET p == puntuadas[i].fila
           chunk == C16_DelChunk(puntuadas[i].chunk)
       IN /\ EsFinito(p.score_anomalia)
          /\ RLe(Z(0), p.score_anomalia) /\ RLe(p.score_anomalia, Z(100))
          /\ (\A j \in chunk : p.score_raw <= puntuadas[j].fila.score_raw)
                => p.score_anomalia = Z(100)
          /\ (\A j \in chunk : p.score_raw >= puntuadas[j].fila.score_raw)
                => p.score_anomalia = Z(0)
          /\ \A j \in chunk :
                p.score_raw < puntuadas[j].fila.score_raw
                   => RGe(p.score_anomalia, puntuadas[j].fila.score_anomalia)

\* key, score and severity of the stored alerts
C17_Resumen(t) ==
    {<<Clave(t[i]), t[i].score_anomalia, t[i].severidad>> : i \in DOMAIN t}

\* the run of the same table and model with chunk size cs
C17_Con(cs) == procesar_deteccion(features_temporales, modelo_if, cs, 0, <<>>, 0)

\* that run ends without an exception and stores defined scores only
C17_Limpia(cs) ==
    /\ ~C17_Con(cs).error
    /\ \A i \in DOMAIN C17_Con(cs).tabla :
          EsFinito(C17_Con(cs).tabla[i].score_anomalia)

\* C17: when a run has ended, the alerts it stored (keys, scores and
\* severities) are those a run with any other chunk size stores for the same
\* table and model (compared among the chunk sizes that run cleanly).
C17_MismoResultado ==
    (pcLote = "fin" /\ C17_Limpia(chunk_size))
    => \A cs \in 1..MaxChunk :
          C17_Limpia(cs) => C17_Resumen(C17_Con(cs).tabla) = C17_Resumen(tabla)

\* the chunk the loop scored last
C26_Chunk == LeerChunk(features_temporales, chunk_size, offset - chunk_size)

\* the chunk with the features of its j-th window changed
C26_Cambiado(j, z, v) ==
    [C26_Chunk EXCEPT ![j].z_score_vs_cajero = z, ![j].volatilidad_reciente = v]

\* raw score, normalized score and severity of the i-th scored window
C26_Puntos(filas, i) ==
    <<filas[i].score_raw, filas[i].score_anomalia,
      determinar_severidad(filas[i].score_anomalia, filas[i].z_score_vs_cajero)>>

\* C26: the scores and the severity computed for one terminal's window
\* depend only on that terminal's own data: changing the window of another
\* terminal in the same chunk leaves them unchanged (compared where both
\* runs give the window a defined score).
C26_SoloDatosPropios ==
    (offset > 0 /\ pcLote # "error") =>
        LET r == detectar_anomalias_chunk(C26_Chunk, modelo_if, 0)
        IN \A i, j \in DOMAIN C26_Chunk :
              C26_Chunk[j].cod_terminal # C26_Chunk[i].cod_terminal =>
                 \A z \in ZScoresLote, v \in VolatilidadesLote :
                    LET r2 == detectar_anomalias_chunk(C26_Cambiado(j, z, v),
                                                       modelo_if, 0)
                    IN (/\ ~r2.error
                        /\ EsFinito(r.puntuadas[i].score_anomalia)
                        /\ EsFinito(r2.puntuadas[i].score_anomalia))
                       => C26_Puntos(r2.puntuadas, i) = C26_Puntos(r.puntuadas, i)

\* the severities, lowest first
C28_Rango(sev) ==
    CASE sev = "medio" -> 1 [] sev = "alto" -> 2 [] sev = "critico" -> 3
      [] OTHER -> 0

\* scores and z-scores around every threshold of determinar_severidad
C28_Scores == {0, 69, 70, 79, 80, 84, 85, 100}

C28_Zs == {-6, -5, -4, -3, 0, 3, 4, 5, 6}

\* on that grid the function returns one of the three labels, and a higher
\* score or a higher |z| never gives a lower one
C28_EnRejilla ==
    \A s1, s2 \in C28_Scores : \A z1, z2 \in C28_Zs :
        /\ C28_Rango(determinar_severidad(Z(s1), Z(z1))) \in 1..3
        /\ (s1 <= s2 /\ AbsInt(z1) <= AbsInt(z2)) =>
              C28_Rango(determinar_severidad(Z(s1), Z(z1)))
                 <= C28_Rango(determinar_severidad(Z(s2), Z(z2)))

\* C28: determinar_severidad is total and monotone: every alert carries one
\* of 'critico', 'alto', 'medio' (never 'normal'), and an alert with a score
\* and a |z| at least as high as another's never has a lower severity;
\* detectar_anomalias_chunk builds an alert for exactly the windows whose
\* model prediction is -1.
C28_TotalYMonotona ==
    /\ C28_EnRejilla
    /\ \A i \in DOMAIN tabla : C28_Rango(tabla[i].severidad) \in 1..3
    /\ \A i, j \in DOMAIN tabla :
          (/\ RLe(tabla[i].score_anomalia, tabla[j].score_anomalia)
           /\ RLe(tabla[i].desviacion_std, tabla[j].desviacion_std))
          => C28_Rango(tabla[i].severidad) <= C28_Rango(tabla[j].severidad)
    /\ Claves(tabla)
          = {<<puntuadas[i].fila.cod_terminal, puntuadas[i].fila.bucket_15min>> :
                i \in {k \in DOMAIN puntuadas : puntuadas[k].fila.is_anomaly = -1}}

\* a finished run that stored alerts of all three severities and scored a
\* window the model did not flag
C28_Testigo ==
    /\ pcLote = "fin"
    /\ {tabla[i].severidad : i \in DOMAIN tabla} = {"critico", "alto", "medio"}
    /\ \E i \in DOMAIN puntuadas : puntuadas[i].fila.is_anomaly = 1

\* how often the k-th window of features_temporales has been scored
C29_Veces(k) ==
    Cardinality({i \in DOMAIN puntuadas :
                    /\ puntuadas[i].fila.cod_terminal = features_temporales[k].cod_terminal
                    /\ puntuadas[i].fila.bucket_15min = features_temporales[k].bucket_15min})

\* C29: procesar_deteccion runs to the end of its loop for every table size
\* and every chunk_size >= 1 and reads each window of features_temporales in
\* exactly one chunk: none is scored twice and, when the run is over, none
\* was skipped.
C29_CadaVentanaUnaVez ==
    /\ pcLote \in {"leer", "fin"}
    /\ \A k \in DOMAIN features_temporales : C29_Veces(k) <= 1
    /\ pcLote = "fin" => \A k \in DOMAIN features_temporales : C29_Veces(k) = 1

(***************************************************************************)
(* SpecZ: the z-scores the three code paths derive from one amount and one *)
(* baseline.                                                               *)
(***************************************************************************)
MontosZ == {Z(0), Z(2), Z(8)}
MediasZ == {Z(2), Z(4), NaN}
StdsZ == {Z(0), Z(1), Z(2), NaN}

ZoutVacio == [hecho |-> FALSE, chunk |-> Z(0), ml_cajero |-> Z(0),
              ml_hora |-> Z(0), ml_dia |-> Z(0), desviacion_std |-> Z(0)]

InitZ ==
    /\ zin \in [monto : MontosZ, cajero_mean : MediasZ, cajero_std : StdsZ,
                hora_mean : MediasZ, hora_std : StdsZ,
                dia_mean : {Z(2)}, dia_std : StdsZ]
    /\ zout = ZoutVacio
    /\ ReposoReglas /\ Reposo15 /\ ReposoTabla /\ ReposoLote /\ ReposoParser /\ ReposoFlags /\ ReposoTendencia

CalcularZ ==
    /\ ~zout.hecho
    /\ zout' = [hecho |-> TRUE,
                chunk |-> ZScoreChunk(zin.monto, zin.cajero_mean, zin.cajero_std),
                ml_cajero |-> ZScoreML(zin.monto, zin.cajero_mean, zin.cajero_std),
                ml_hora |-> ZScoreML(zin.monto, zin.hora_mean, zin.hora_std),
                ml_dia |-> ZScoreML(zin.monto, zin.dia_mean, zin.dia_std),
                desviacion_std |->
                    DesviacionStd(zin.monto,
                                  [dispensacion_promedio |-> zin.cajero_mean,
                                   dispensacion_std |-> zin.cajero_std])]
    /\ UNCHANGED <<zin, varsReglas, vars15, varsTabla, varsLote, varsParser, varsFlags, varsTendencia>>

NextZ == CalcularZ

SpecZ == InitZ /\ [][NextZ]_vars

C6_SinReferencia(std) == std = Z(0) \/ IsNaN(std)

\* C6: whenever the reference standard deviation is 0 or missing, every
\* z-score derived from it is exactly 0: z_score_vs_cajero of
\* calcular_features_chunk, the z-scores of calcular_features_ml and the
\* alert's desviacion_std.
C6_ZCero ==
    zout.hecho =>
        /\ C6_SinReferencia(zin.cajero_std) =>
              /\ zout.chunk = Z(0)
              /\ zout.ml_cajero = Z(0)
              /\ zout.desviacion_std = Z(0)
        /\ C6_SinReferencia(zin.hora_std) => zout.ml_hora = Z(0)
        /\ C6_SinReferencia(zin.dia_std) => zout.ml_dia = Z(0)

(***************************************************************************)
(* SpecParser: the two parsers of the 15-minute input file, each reading   *)
(* the data lines of the same file one by one.  A line is the list of its  *)
(* comma-separated parts; partes[k + 1] here is partes[k] in the code.     *)
(***************************************************************************)
\* the strings int() and float() accept
EsNumero(s) == s \in {"1", "2", "3", "4", "5", "6", "8", "10"}

\* int(s) of a decimal string
int(s) ==
    CASE s = "1" -> 1 [] s = "2" -> 2 [] s = "3" -> 3 [] s = "4" -> 4
      [] s = "5" -> 5 [] s = "6" -> 6 [] s = "8" -> 8 [] s = "10" -> 10

\* whether datetime.strptime(s, '%Y%m%d%H%M%S') succeeds
FechaValida(s) == s = "20250101120000"

codigos_relevantes == {2, 3, 4}

codigos_procesar == {"2"}

\* the body of the "for linea in f" loop of parsear_archivo_15min; error: a
\* ValueError of int(), float() or strptime, which nothing catches
parsear_linea_15min(regs, partes) ==
    IF Len(partes) < 5 THEN [error |-> FALSE, registros |-> regs]
    ELSE IF ~EsNumero(partes[3]) THEN [error |-> TRUE, registros |-> regs]
    ELSE IF int(partes[3]) \notin codigos_relevantes
    THEN [error |-> FALSE, registros |-> regs]
    ELSE IF ~EsNumero(partes[4]) \/ ~FechaValida(partes[5])
    THEN [error |-> TRUE, registros |-> regs]
    ELSE [error |-> FALSE,
          registros |-> Append(regs, [cod_cajero |-> partes[2],
                                      cod_admin_efectivo |-> int(partes[3]),
                                      monto_total |-> int(partes[4]),
                                      fecha_hora |-> partes[5]])]

\* the body of the "for i, line in enumerate(lines)" loop of the upload page;
\* an IndexError or ValueError is caught and the line skipped
parsear_linea_carga(trans, parts) ==
    IF parts[1] # "02" THEN trans
    ELSE IF parts[3] \notin codigos_procesar THEN trans
    ELSE IF Len(parts) < 5 THEN trans
    ELSE IF ~EsNumero(parts[4]) THEN trans
    ELSE IF ~FechaValida(parts[5]) THEN trans
    ELSE Append(trans, [cod_cajero |-> parts[2],
                        cod_operacion |-> parts[3],
                        monto_dispensado |-> int(parts[4]),
                        timestamp |-> parts[5]])

MaxLineas == 3

\* admin codes of the file format (codigos_admin), as written in the file
CodigosArchivo == {"1", "2", "3", "4", "5", "10"}

\* a data line: well-formed, or cut short after the admin code, or with a
\* non-numeric admin code or amount, or with an unparsable timestamp
LineasDeDatos ==
    {<<"02", "100", c, "8", "20250101120000">> : c \in CodigosArchivo \cup {"x"}}
    \cup {<<"02", "100", c>> : c \in {"1", "2"}}
    \cup {<<"02", "100", c, "8", "2025">> : c \in {"1", "2"}}
    \cup {<<"02", "100", "2", "x", "20250101120000">>}

InitParser ==
    /\ lineas \in UNION {[1..n -> LineasDeDatos] : n \in 0..MaxLineas}
    /\ registros = <<>> /\ i15 = 0
    /\ transacciones = <<>> /\ iCarga = 0
    /\ pcParser = "leyendo"
    /\ ReposoReglas /\ Reposo15 /\ ReposoTabla /\ ReposoZ /\ ReposoLote /\ ReposoFlags /\ ReposoTendencia

\* parsear_archivo_15min reads the next line
LeerLinea15 ==
    /\ pcParser = "leyendo" /\ i15 < Len(lineas)
    /\ LET r == parsear_linea_15min(registros, lineas[i15 + 1])
       IN /\ registros' = r.registros
          /\ pcParser' = IF r.error THEN "error" ELSE "leyendo"
          /\ i15' = IF r.error THEN i15 ELSE i15 + 1
    /\ UNCHANGED <<lineas, transacciones, iCarga>>
    /\ UNCHANGED <<varsReglas, vars15, varsTabla, varsZ, varsLote, varsFlags, varsTendencia>>

\* the file is exhausted: df = pd.DataFrame(registros) is returned
TerminarParser15 ==
    /\ pcParser = "leyendo" /\ i15 = Len(lineas)
    /\ pcParser' = "fin"
    /\ UNCHANGED <<lineas, registros, i15, transacciones, iCarga>>
    /\ UNCHANGED <<varsReglas, vars15, varsTabla, varsZ, varsLote, varsFlags, varsTendencia>>

\* the upload page reads the next line
LeerLineaCarga ==
    /\ iCarga < Len(lineas)
    /\ transacciones' = parsear_linea_carga(transacciones, lineas[iCarga + 1])
    /\ iCarga' = iCarga + 1
    /\ UNCHANGED <<lineas, registros, i15, pcParser>>
    /\ UNCHANGED <<varsReglas, vars15, varsTabla, varsZ, varsLote, varsFlags, varsTendencia>>

NextParser == LeerLinea15 \/ TerminarParser15 \/ LeerLineaCarga

SpecParser == InitParser /\ [][NextParser]_vars

\* a well-formed data record: all fields present and parsable
C20_BienFormada(partes) ==
    /\ Len(partes) >= 5
    /\ EsNumero(partes[3]) /\ EsNumero(partes[4]) /\ FechaValida(partes[5])

\* the admin codes of the well-formed data records among the first n lines
\* whose admin code is 2, 3 or 4, in file order
RECURSIVE C20_Esperados(_)
C20_Esperados(n) ==
    IF n = 0 THEN <<>>
    ELSE IF C20_BienFormada(lineas[n]) /\ int(lineas[n][3]) \in {2, 3, 4}
         THEN Append(C20_Esperados(n - 1), int(lineas[n][3]))
         ELSE C20_Esperados(n - 1)

\* the 15-minute parser keeps a record iff its admin code is 2, 3 or 4
C20_Parser15 ==
    [k \in DOMAIN registros |-> registros[k].cod_admin_efectivo]
        = C20_Esperados(i15)

\* C20: the input-file parser keeps a data record if and only if its admin
\* code is 2, 3 or 4, in parsear_archivo_15min and in the parser of the
\* file-upload page alike.
C20_SoloDispensacion ==
    /\ C20_Parser15
    /\ [k \in DOMAIN transacciones |-> int(transacciones[k].cod_operacion)]
          = C20_Esperados(iCarga)

\* C21: a malformed data record is skipped by parsear_archivo_15min and
\* parsing continues: the parser never stops on an error, and the output it
\* returns holds every well-formed dispensation record of the file.
C21_SigueTrasMalformada ==
    /\ pcParser # "error"
    /\ pcParser = "fin" =>
          [k \in DOMAIN registros |-> registros[k].cod_admin_efectivo]
              = C20_Esperados(Len(lineas))

(***************************************************************************)
(* SpecFlags: the temporal flags of one window timestamp, as the batch     *)
(* feature builder and the upload page's feature builder compute them.     *)
(* The 0/1 integers of astype(int) are read as booleans.                   *)
(***************************************************************************)
\* 1_crear_features_temporales.py, calcular_features_chunk
calcular_features_chunk(b) ==
    LET dia_semana == b.dayofweek + 1
        dia_mes == b.day
    IN [dia_semana |-> dia_semana,
        es_fin_de_semana |-> dia_semana \in {6, 7},
        es_fin_de_mes |-> dia_mes >= 28,
        es_quincena |-> (dia_mes >= 14 /\ dia_mes <= 16)
                        \/ (dia_mes >= 29 \/ dia_mes <= 1)]

\* 3_Procesar_Datos.py, calcular_features_ml
calcular_features_ml(b) ==
    LET dia_semana == b.dayofweek
        dia_mes == b.day
        dias_en_mes == b.days_in_month
    IN [dia_semana |-> dia_semana,
        es_fin_de_semana |-> dia_semana \in {5, 6},
        es_fin_de_mes |-> dias_en_mes - dia_mes <= 3,
        es_quincena |-> (dia_mes >= 14 /\ dia_mes <= 16) \/ dia_mes >= 29]

\* every day of a month of 28, 29, 30 or 31 days, on every day of the week
\* (pandas dayofweek: 0 = Monday)
Marcas ==
    {[dayofweek |-> w, day |-> d, days_in_month |-> n] :
        w \in 0..6, d \in 1..31, n \in 28..31}

InitFlags ==
    /\ marca \in {b \in Marcas : b.day <= b.days_in_month}
    /\ temporales = <<>>
    /\ ReposoReglas /\ Reposo15 /\ ReposoTabla /\ ReposoZ /\ ReposoLote /\ ReposoTendencia
    /\ ReposoParser

CalcularFlags ==
    /\ temporales = <<>>
    /\ temporales' = [chunk |-> calcular_features_chunk(marca),
                      ml |-> calcular_features_ml(marca)]
    /\ UNCHANGED marca
    /\ UNCHANGED <<varsReglas, vars15, varsTabla, varsZ, varsLote, varsParser, varsTendencia>>

NextFlags == CalcularFlags

SpecFlags == InitFlags /\ [][NextFlags]_vars

\* the flags the claim gives for the timestamp
C22_Esperadas ==
    LET dow == marca.dayofweek + 1
        dia == marca.day
    IN [dia_semana |-> dow,
        es_fin_de_semana |-> dow \in {6, 7},
        es_fin_de_mes |-> dia >= 28 \/ marca.days_in_month - dia < 3,
        es_quincena |-> dia \in 14..16 \/ dia >= 29]

\* C22: for every window timestamp the flags are: day-of-week in 1..7,
\* weekend iff day-of-week is 6 or 7, month-end iff day-of-month >= 28 or the
\* day is within the last 3 days of its month, mid-month iff day-of-month is
\* in 14..16 or >= 29; and both feature builders give the same flags.
C22_Banderas ==
    temporales # <<>> =>
        /\ C22_Esperadas.dia_semana \in 1..7
        /\ temporales.chunk = C22_Esperadas
        /\ temporales.ml = C22_Esperadas
        /\ temporales.chunk = temporales.ml

(***************************************************************************)
(* SpecTendencia: the trailing volatility and trend of one terminal's      *)
(* windows, as the two SQL feature updates and calcular_features_tendencia *)
(* store them.  A standard deviation is kept as its square (the variance), *)
(* with nulo for SQL NULL / float NaN.                                     *)
(***************************************************************************)
NULL == [nulo |-> TRUE, v |-> Z(0)]

Valor(x) == [nulo |-> FALSE, v |-> x]

RECURSIVE Suma(_, _, _)
\* the sum of f[k] for k in a..b
Suma(f, a, b) == IF a > b THEN 0 ELSE f[b] + Suma(f, a, b - 1)

\* STDDEV / Series.std over rows a..b of xs: the sample variance, NULL with
\* fewer than 2 rows
STDDEV(xs, a, b) ==
    LET n == b - a + 1
    IN IF n < 2 THEN NULL
       ELSE Valor(Q(n * Suma([k \in a..b |-> xs[k] * xs[k]], a, b)
                      - Suma(xs, a, b) * Suma(xs, a, b),
                    n * (n - 1)))

\* the least-squares slope of xs[k] against k * paso over rows a..b (paso:
\* the seconds between two windows when the regressor is the epoch, 1 when it
\* is the period number); NULL when the rows do not determine a line
REGR_SLOPE(xs, a, b, paso) ==
    LET n == b - a + 1
        sxx == n * Suma([k \in a..b |-> k * k], a, b)
               - Suma([k \in a..b |-> k], a, b) * Suma([k \in a..b |-> k], a, b)
        sxy == n * Suma([k \in a..b |-> k * xs[k]], a, b)
               - Suma([k \in a..b |-> k], a, b) * Suma(xs, a, b)
    IN IF n < 1 \/ sxx = 0 THEN NULL ELSE Valor(Q(sxy, sxx * paso))

\* ROWS BETWEEN 96 PRECEDING AND ...
Ventana24h == 96

Desde(i) == IF i - Ventana24h < 1 THEN 1 ELSE i - Ventana24h

\* 1_crear_features_temporales.py: the UPDATE of calcular_features_avanzadas
calcular_features_avanzadas(xs) ==
    [i \in DOMAIN xs |->
        [volatilidad_reciente |-> STDDEV(xs, Desde(i), i - 1),
         tendencia_24h |-> REGR_SLOPE(xs, Desde(i), i, 900)]]

\* 1_1_features_avanzadas.py: the UPDATE of calcular_features_cajero
calcular_features_cajero(xs) ==
    [i \in DOMAIN xs |->
        [volatilidad_reciente |-> STDDEV(xs, Desde(i), i - 1),
         tendencia_24h |-> IF i - Desde(i) + 1 >= 10
                           THEN REGR_SLOPE(xs, Desde(i), i, 900)
                           ELSE NULL]]

\* calcular_features_dispensacion.py: calcular_features_tendencia (the
\* rolling window of 7 days is longer than the series here)
calcular_features_tendencia(xs) ==
    [tendencia_slope |-> IF Len(xs) > 5 THEN REGR_SLOPE(xs, 1, Len(xs), 1)
                         ELSE Valor(Z(0)),
     volatilidad_reciente |-> IF Len(xs) > 0 THEN STDDEV(xs, 1, Len(xs))
                              ELSE Valor(Z(0))]

MaxVentanas == 10

MontosSerie == {2, 8}

InitTendencia ==
    /\ serie \in UNION {[1..n -> MontosSerie] : n \in 1..MaxVentanas}
    /\ avanzadas = <<>>
    /\ ReposoReglas /\ Reposo15 /\ ReposoTabla /\ ReposoZ /\ ReposoLote
    /\ ReposoParser /\ ReposoFlags

\* the feature job of 1_crear_features_temporales.py runs
CalcularAvanzadas ==
    /\ "avanzadas" \notin DOMAIN avanzadas
    /\ avanzadas' = avanzadas @@ [avanzadas |-> calcular_features_avanzadas(serie)]
    /\ UNCHANGED serie
    /\ UNCHANGED <<varsReglas, vars15, varsTabla, varsZ, varsLote, varsParser, varsFlags>>

\* the feature job of 1_1_features_avanzadas.py runs for the terminal
CalcularCajero ==
    /\ "cajero" \notin DOMAIN avanzadas
    /\ avanzadas' = avanzadas @@ [cajero |-> calcular_features_cajero(serie)]
    /\ UNCHANGED serie
    /\ UNCHANGED <<varsReglas, vars15, varsTabla, varsZ, varsLote, varsParser, varsFlags>>

\* calcular_features_dispensacion.py computes the terminal's features_ml row
CalcularTendencia ==
    /\ "tendencia" \notin DOMAIN avanzadas
    /\ avanzadas' = avanzadas @@ [tendencia |-> calcular_features_tendencia(serie)]
    /\ UNCHANGED serie
    /\ UNCHANGED <<varsReglas, vars15, varsTabla, varsZ, varsLote, varsParser, varsFlags>>

NextTendencia == CalcularAvanzadas \/ CalcularCajero \/ CalcularTendencia

SpecTendencia == InitTendencia /\ [][NextTendencia]_vars

\* the neutral value: 0, not NULL
C25_Neutro(x) == ~x.nulo /\ x.v = Z(0)

\* what C25 says of the rows of an SQL update: fewer than 2 preceding points
\* give volatility 0, fewer than minimo points in the window give slope 0
C25_FilasNeutras(filas, minimo) ==
    \A i \in DOMAIN filas :
        /\ i - Desde(i) < 2 => C25_Neutro(filas[i].volatilidad_reciente)
        /\ i - Desde(i) + 1 < minimo => C25_Neutro(filas[i].tendencia_24h)

\* C25: for a terminal whose trailing window is empty or too short (fewer
\* than 2 points for the volatility, fewer than the minimum number of points
\* for the slope) the stored trailing volatility and trend slope are 0, never
\* NULL or NaN, in both SQL feature updates and in
\* calcular_features_tendencia.
C25_NeutroSinHistoria ==
    /\ "avanzadas" \in DOMAIN avanzadas => C25_FilasNeutras(avanzadas.avanzadas, 2)
    /\ "cajero" \in DOMAIN avanzadas => C25_FilasNeutras(avanzadas.cajero, 10)
    /\ "tendencia" \in DOMAIN avanzadas =>
          /\ Len(serie) <= 5 => C25_Neutro(avanzadas.tendencia.tendencia_slope)
          /\ Len(serie) < 2 => C25_Neutro(avanzadas.tendencia.volatilidad_reciente)

====
